---- MODULE Spec2Model ----
(***************************************************************************)
(* Layer and mask engine of the mask-editing canvas: layer store, freehand *)
(* strokes, cancellable segmentation, viewport, and the bounded undo/redo  *)
(* history with debounced coalescing.                                      *)
(*                                                                         *)
(* The repository holds the contracts (CanvasAPI, ToolSystem,              *)
(* LayerManager), the data-model and research notes and the tests; the     *)
(* engine's operations are modelled from the data model's "Operations" and *)
(* "State Update Patterns" and, where those are silent, from the design    *)
(* specification.                                                          *)
(*                                                                         *)
(* Abstractions: the canvas is a row of NumPixels pixels; alpha is 0 or    *)
(* FullAlpha; zoom and opacity are integer percentages; the base image is  *)
(* an identifier and an image file its size and format; timestamps and     *)
(* thumbnails are left out; a history entry is the value of the layers and *)
(* viewport it recorded.  The facade's viewport has a pan in whole pixels  *)
(* and zooms about the canvas origin.  Three components are modelled on    *)
(* their own, beside the facade: a mask buffer with its tracked bounding   *)
(* box, the compositor with its dirty rectangles and presentation buffer,  *)
(* and a viewport transform that zooms about an anchor, its pan an exact   *)
(* fraction.                                                               *)
(*                                                                         *)
(* Specifications: Spec (the whole facade under an action budget),         *)
(* SpecLive (Spec's drawing and zooming with fair timers),                 *)
(* SpecHistoryLimit, SpecLayerLimit, SpecEdits, SpecTools, SpecOutline,    *)
(* SpecImage, SpecOrder, SpecPaint, SpecZoom, SpecView, SpecFirstMask,     *)
(* SpecRender, SpecVisibility and SpecExport (scenarios in which the       *)
(* outcome of every call is observed), SpecBuffer, SpecComposite and       *)
(* SpecTransform (the components on their own).                            *)
(***************************************************************************)
EXTENDS Integers, Sequences, FiniteSets, TLC

(***************************************************************************)
(* Bounds of the model                                                     *)
(***************************************************************************)
NumPixels == 2
MaxActions == 3
MaxScript == 52
MaxCreates == 101
MaxPoints == 3
MaxStack == 3
MaxPaints == 2

(***************************************************************************)
(* Program constants                                                       *)
(***************************************************************************)
HISTORY_LIMIT == 50
MAX_LAYERS == 100
MIN_ZOOM == 10
MAX_ZOOM == 1000
DEFAULT_ZOOM == 100
MIN_NAME_LENGTH == 1
MAX_NAME_LENGTH == 50
MIN_OPACITY == 0
MAX_OPACITY == 100
DEFAULT_OPACITY == 100
MIN_POLYGON_POINTS == 3
MAX_IMAGE_SIZE == 20971520
FullAlpha == 255

Pixels == 1..NumPixels
NoLayer == 0
NoToken == 0
NoPoint == 0
NoImage == 0

DrawTools == {"BRUSH", "ERASER"}
ToolInputs == {"BRUSH", "ERASER", "MAGNETIC_BRUSH"}
StrokeCategories == {"DRAW", "ERASE"}
ZoomFactors == {25, 400}

\* factors (in hundredths) of the zoom scenario: the steps of zoomIn and
\* zoomOut, larger ones, and ones that ask for a zoom far out of range
ZoomInputs == {0 - 100, 0, 25, 90, 110, 400, 100000}
PanDeltas == {0 - 1, 1}

\* zoom levels (in hundredths) asked of setZoom, in and out of range, and
\* canvas and viewport widths (in pixels) given to fitToScreen: a canvas as
\* wide as the viewport, 4 times, 11 and 20 times wider, and 20 times narrower
SetZoomInputs == {0 - 5, 0, 9, 10, 250, 1000, 1001}
CanvasWidths == {40, 800, 3200, 8800, 16000}
ViewportWidths == {800}

\* inputs of the layer property operations: names of 0, 1, 50 and 51
\* characters, colours well-formed and not, opacities (in hundredths) in
\* and out of range
NameInputs ==
  {"", "A", "Foreground mask of the second building on the left",
   "Foreground mask of the second building on the left."}
ColorInputs == {"#00FF00", "#00FF0080", "green", "#00FG00"}
OpacityInputs == {0 - 1, 0, 100, 101}

\* the engine's state
VARIABLES layers, activeLayerId, activeTool, viewport, history,
          isDrawing, lastPoint, pending, segToken, inflight, nextId, nextToken,
          image, outline

\* a mask buffer on its own: its alpha values and its tracked bounding box
VARIABLES buffer

\* the compositor: the dirty rectangle of each layer that has one, whether
\* dirty tracking was invalidated, and the presentation buffer
VARIABLES compositor

\* a viewport transform on its own, its pan an exact fraction of a pixel
VARIABLES transform

\* observations of the run: the segmentation results applied and discarded,
\* the pending requests superseded, the calls made, the entries pushed for a
\* stroke, the outcome of the last call observed
VARIABLES applied, discarded, stale, used, strokeEntries, result

engine == <<layers, activeLayerId, activeTool, viewport, history,
            isDrawing, lastPoint, pending, segToken, inflight, nextId, nextToken,
            image, outline, buffer, compositor, transform>>

vars == <<layers, activeLayerId, activeTool, viewport, history,
          isDrawing, lastPoint, pending, segToken, inflight, nextId, nextToken,
          image, outline, buffer, compositor, transform, applied, discarded,
          stale, used, strokeEntries, result>>

(***************************************************************************)
(* Sequence helpers                                                        *)
(***************************************************************************)
Front(s) == SubSeq(s, 1, Len(s) - 1)

Last(s) == s[Len(s)]

Min2(a, b) == IF a <= b THEN a ELSE b

Max2(a, b) == IF a >= b THEN a ELSE b

(***************************************************************************)
(* Layer store: pure operations on the ordered layer array                 *)
(***************************************************************************)
EmptyMask == [p \in Pixels |-> 0]

\* opacity is in hundredths
HexDigits ==
  {"0", "1", "2", "3", "4", "5", "6", "7", "8", "9",
   "A", "B", "C", "D", "E", "F", "a", "b", "c", "d", "e", "f"}

DEFAULT_NAME_PREFIX == "Layer"

DEFAULT_COLOR == "#FF0000"

DefaultName(n) == DEFAULT_NAME_PREFIX \o " " \o ToString(n)

ValidNameAlways(name) == TRUE

ValidName(name) ==
  Len(name) >= MIN_NAME_LENGTH /\ Len(name) <= MAX_NAME_LENGTH

\* #RRGGBB or #RRGGBBAA
ValidColor(color) ==
  /\ Len(color) \in {7, 9}
  /\ SubSeq(color, 1, 1) = "#"
  /\ \A i \in 2..Len(color) : SubSeq(color, i, i) \in HexDigits

ValidOpacity(opacity) == opacity >= MIN_OPACITY /\ opacity <= MAX_OPACITY

NewLayer(id, n) ==
  [id |-> id, zIndex |-> n, mask |-> EmptyMask, name |-> DefaultName(n + 1),
   color |-> DEFAULT_COLOR, opacity |-> DEFAULT_OPACITY, visible |-> TRUE]

SetField(ls, id, field, value) ==
  [i \in 1..Len(ls) |->
     IF ls[i].id = id THEN [ls[i] EXCEPT ![field] = value] ELSE ls[i]]

LayerIds(ls) == {ls[i].id : i \in 1..Len(ls)}

ZIndexSet(ls) == {ls[i].zIndex : i \in 1..Len(ls)}

IndexOf(ls, id) == CHOOSE i \in 1..Len(ls) : ls[i].id = id

RECURSIVE InsertByZ(_, _)
InsertByZ(sorted, l) ==
  IF sorted = <<>> THEN <<l>>
  ELSE IF l.zIndex < Head(sorted).zIndex THEN <<l>> \o sorted
  ELSE <<Head(sorted)>> \o InsertByZ(Tail(sorted), l)

RECURSIVE SortByZ(_)
SortByZ(ls) ==
  IF ls = <<>> THEN <<>> ELSE InsertByZ(SortByZ(Front(ls)), Last(ls))

ReindexBug(ls) == ls

Reindex(ls) == [i \in 1..Len(ls) |-> [ls[i] EXCEPT !.zIndex = i - 1]]

RemoveLayer(ls, id) == SelectSeq(ls, LAMBDA l : l.id # id)

SwapZ(ls, i, j) ==
  [ls EXCEPT ![i].zIndex = ls[j].zIndex, ![j].zIndex = ls[i].zIndex]

ZIndexOf(ls, id) == ls[IndexOf(ls, id)].zIndex

MoveUpLayersToTop(ls, id) ==
  LET i == IndexOf(ls, id)
  IN Reindex(Append(RemoveLayer(ls, id), ls[i]))

MoveUpLayers(ls, id) ==
  LET i == IndexOf(ls, id)
      above == {j \in 1..Len(ls) : ls[j].zIndex = ls[i].zIndex + 1}
  IN IF above = {} THEN ls
     ELSE SortByZ(SwapZ(ls, i, CHOOSE j \in above : TRUE))

MoveDownLayers(ls, id) ==
  LET i == IndexOf(ls, id)
      below == {j \in 1..Len(ls) : ls[j].zIndex = ls[i].zIndex - 1}
  IN IF below = {} THEN ls
     ELSE SortByZ(SwapZ(ls, i, CHOOSE j \in below : TRUE))

MoveToTopLayersSwap(ls, id) ==
  LET i == IndexOf(ls, id)
      top == CHOOSE j \in 1..Len(ls) : ls[j].zIndex = Len(ls) - 1
  IN SortByZ(SwapZ(ls, i, top))

MoveToTopLayers(ls, id) ==
  LET i == IndexOf(ls, id)
  IN Reindex(Append(RemoveLayer(ls, id), ls[i]))

MoveToBottomLayers(ls, id) ==
  LET i == IndexOf(ls, id)
  IN Reindex(<<ls[i]>> \o RemoveLayer(ls, id))

DeleteLayers(ls, id) == Reindex(RemoveLayer(ls, id))

\* the layer that takes the deleted layer's z-index, or none
ActiveAfterDeleteNext(ls, id, active) ==
  IF active # id THEN active
  ELSE LET i == IndexOf(ls, id)
       IN IF i < Len(ls) THEN ls[i + 1].id
          ELSE IF i > 1 THEN ls[i - 1].id ELSE NoLayer

\* the active layer after deleting layer id: the previous layer, or none
ActiveAfterDelete(ls, id, active) ==
  IF active # id THEN active
  ELSE LET i == IndexOf(ls, id)
       IN IF i > 1 THEN ls[i - 1].id ELSE NoLayer

(***************************************************************************)
(* Mask buffer of one layer                                                *)
(***************************************************************************)
Segment(a, b) == Min2(a, b)..Max2(a, b)

WriteAlphaToggle(mask, region, value) ==
  [p \in Pixels |->
     IF p \notin region THEN mask[p]
     ELSE IF value = 0 /\ mask[p] = 0 THEN FullAlpha ELSE value]

WriteAlpha(mask, region, value) ==
  [p \in Pixels |-> IF p \in region THEN value ELSE mask[p]]

BrushValue(tool) == IF tool = "ERASER" THEN 0 ELSE FullAlpha

StrokeCategory(tool) == IF tool = "ERASER" THEN "ERASE" ELSE "DRAW"

PaintLayersAll(ls, id, region, value) ==
  [i \in 1..Len(ls) |->
     [ls[i] EXCEPT !.mask = WriteAlpha(ls[i].mask, region, value)]]

PaintLayers(ls, id, region, value) ==
  [i \in 1..Len(ls) |->
     IF ls[i].id = id
     THEN [ls[i] EXCEPT !.mask = WriteAlpha(ls[i].mask, region, value)]
     ELSE ls[i]]

\* the pixels a closed outline fills: on the one-row canvas the polygon and
\* its bounding box are the span of its points
PolygonFill(points) ==
  LET ps == {points[i] : i \in 1..Len(points)}
  IN {p \in Pixels : (\E a \in ps : a <= p) /\ (\E b \in ps : p <= b)}

\* the bounding box of the pixels set in a mask
MaskBounds(mask) ==
  LET set == {p \in Pixels : mask[p] > 0}
  IN IF set = {} THEN <<>>
     ELSE <<CHOOSE a \in set : \A p \in set : a <= p,
            CHOOSE b \in set : \A p \in set : p <= b>>

SegRegions(point) ==
  {lo..hi : lo \in 1..point, hi \in point..NumPixels}

(***************************************************************************)
(* Mask buffer: a sparse alpha raster and the bounding box it tracks; a    *)
(* box is <<first, last>> in canvas pixels, NoBounds while nothing was     *)
(* written                                                                 *)
(***************************************************************************)
NoBounds == <<>>

EmptyBuffer == [mask |-> EmptyMask, bounds |-> NoBounds]

\* points handed to the buffer: the canvas and one pixel off either edge
PointInputs == 0..(NumPixels + 1)

\* regions stamped: spans that meet the canvas
StampRegions ==
  {lo..hi : lo \in PointInputs, hi \in PointInputs} \ {{}, {0}, {NumPixels + 1}}

\* an off-canvas point is moved to the nearest in-canvas coordinate
ClampPoint(p) == Max2(1, Min2(NumPixels, p))

ClampRegion(region) == region \cap Pixels

BoxPixels(box) == IF box = NoBounds THEN {} ELSE box[1]..box[2]

\* the minimal box that contains the old box and the region written
GrowBounds(box, region) ==
  LET set == BoxPixels(box) \cup region
  IN IF set = {} THEN NoBounds
     ELSE <<CHOOSE a \in set : \A p \in set : a <= p,
            CHOOSE b \in set : \A p \in set : p <= b>>

BufferWriteTight(b, point, value) ==
  LET mask == WriteAlpha(b.mask, {ClampPoint(point)}, value)
  IN [mask |-> mask, bounds |-> MaskBounds(mask)]

\* writeAlpha(point, value): the clamped point takes the value, erasing
\* included, and the box grows to hold it
BufferWrite(b, point, value) ==
  [mask |-> WriteAlpha(b.mask, {ClampPoint(point)}, value),
   bounds |-> GrowBounds(b.bounds, {ClampPoint(point)})]

\* stampRegion(sourceAlpha, bounds): the region on the canvas is overwritten
\* with the source alpha, full over the pixels of on and zero over the rest
BufferStamp(b, on, region) ==
  [mask |-> [p \in Pixels |->
               IF p \notin ClampRegion(region) THEN b.mask[p]
               ELSE IF p \in on THEN FullAlpha ELSE 0],
   bounds |-> GrowBounds(b.bounds, ClampRegion(region))]

\* clear(): nothing is left, the box neither
BufferClear(b) == EmptyBuffer

\* readAlpha(point): outside the tracked box the answer is 0 and the raster
\* is not consulted
BufferRead(b, p) ==
  IF p \notin BoxPixels(b.bounds) THEN 0 ELSE b.mask[p]

(***************************************************************************)
(* Renderer: the layers drawn over the base image                          *)
(***************************************************************************)
\* what shows where no layer has paint: the base image
BaseImage == 0

GetVisibleLayers(ls) == SelectSeq(ls, LAMBDA l : l.visible)

\* the layers renderComposite draws, first drawn first
DrawOrderAll(ls) == SortByZ(ls)

DrawOrder(ls) == SortByZ(GetVisibleLayers(ls))

\* one layer drawn over the running result: its paint covers what is there
RenderLayer(canvas, l) ==
  [p \in Pixels |-> IF l.mask[p] > 0 THEN l.id ELSE canvas[p]]

RECURSIVE RenderAllLayers(_, _)
RenderAllLayers(canvas, order) ==
  IF order = <<>> THEN canvas
  ELSE RenderAllLayers(RenderLayer(canvas, Head(order)), Tail(order))

\* the picture: for every pixel the layer whose paint shows there
RenderComposite(ls) ==
  RenderAllLayers([p \in Pixels |-> BaseImage], DrawOrder(ls))

(***************************************************************************)
(* Viewport                                                                *)
(***************************************************************************)
DefaultViewport == [zoom |-> DEFAULT_ZOOM, pan |-> 0]

ClampZoomTop(z) == Min2(MAX_ZOOM, z)

ClampZoom(z) == Max2(MIN_ZOOM, Min2(MAX_ZOOM, z))

\* the pan is clamped to keep the canvas in view
ClampPan(x) == Max2(0 - NumPixels, Min2(NumPixels, x))

PanBy(vp, delta) == [vp EXCEPT !.pan = ClampPan(vp.pan + delta)]

ZoomBy(vp, factor) == [vp EXCEPT !.zoom = ClampZoom((vp.zoom * factor) \div 100)]

\* the canvas point under a screen point: the pan is an offset in screen
\* pixels, the zoom is in hundredths
ToCanvas(vp, s) == ((s - vp.pan) * 100) \div vp.zoom

(***************************************************************************)
(* Viewport transform with an anchor: positions are exact fractions        *)
(* <<numerator, denominator>> of a pixel, in lowest terms                  *)
(***************************************************************************)
Abs(x) == IF x < 0 THEN 0 - x ELSE x

RECURSIVE GCD(_, _)
GCD(a, b) == IF b = 0 THEN a ELSE GCD(b, a % b)

Fraction(n, d) ==
  LET g == GCD(Abs(n), Abs(d))
      sign == IF d < 0 THEN 0 - 1 ELSE 1
  IN <<(sign * n) \div g, (sign * d) \div g>>

DefaultTransform == [zoom |-> DEFAULT_ZOOM, pan |-> Fraction(0, 1)]

\* the canvas point under a screen point: (s - pan) / zoom, zoom being in
\* hundredths
ToCanvasExact(t, s) ==
  Fraction(100 * (s * t.pan[2] - t.pan[1]), t.pan[2] * t.zoom)

ZoomAtUnclamped(t, factor, anchor) ==
  LET zoom == ClampZoom((t.zoom * factor) \div 100)
      asked == IF t.zoom * factor = 0 THEN 1 ELSE t.zoom * factor
      c == ToCanvasExact(t, anchor)
  IN [zoom |-> zoom,
      pan |-> Fraction(anchor * c[2] * 10000 - c[1] * asked, c[2] * 10000)]

\* the zoom is multiplied and clamped as in ZoomBy, and the pan is solved
\* for anew: anchor - c * zoom, c the canvas point under the anchor
ZoomAt(t, factor, anchor) ==
  LET zoom == ClampZoom((t.zoom * factor) \div 100)
      c == ToCanvasExact(t, anchor)
  IN [zoom |-> zoom,
      pan |-> Fraction(anchor * c[2] * 100 - c[1] * zoom, c[2] * 100)]

(***************************************************************************)
(* Compositor: dirty rectangles per layer and the presentation buffer      *)
(***************************************************************************)
\* what the screen shows where the canvas does not reach
Outside == 0 - 1

\* the presentation buffer of a full recomposite: every screen pixel shows
\* the picture at the canvas point under it
FullComposite(ls, vp) ==
  [s \in Pixels |->
     IF ToCanvas(vp, s) \in Pixels THEN RenderComposite(ls)[ToCanvas(vp, s)]
     ELSE Outside]

\* before the first frame: nothing presented, a full recomposite is due
NewCompositor ==
  [dirty |-> <<>>, invalid |-> TRUE, presented |-> [s \in Pixels |-> Outside]]

\* getDirtyRegion: the layer's dirty rectangle, NoBounds without one
GetDirtyRegion(c, id) ==
  IF id \in DOMAIN c.dirty THEN c.dirty[id] ELSE NoBounds

MarkDirtyLatest(c, id, bounds) ==
  [c EXCEPT !.dirty = [i \in DOMAIN c.dirty \cup {id} |->
                         IF i = id THEN GrowBounds(NoBounds, bounds)
                         ELSE c.dirty[i]]]

\* markDirty: the layer's rectangle becomes the union of what it was and
\* the bounds marked
MarkDirty(c, id, bounds) ==
  [c EXCEPT !.dirty = [i \in DOMAIN c.dirty \cup {id} |->
                         IF i = id
                         THEN GrowBounds(GetDirtyRegion(c, id), bounds)
                         ELSE c.dirty[i]]]

\* a viewport change: the rectangles are dropped, a full recomposite is due
InvalidateDirty(c) == [c EXCEPT !.dirty = <<>>, !.invalid = TRUE]

\* the union of all layers' dirty rectangles
DirtyUnion(c) == UNION {BoxPixels(c.dirty[i]) : i \in DOMAIN c.dirty}

\* a composite pass: everything after an invalidation, else only the screen
\* pixels over the dirty rectangles; the tracking starts afresh
Composite(c, ls, vp) ==
  [dirty |-> <<>>,
   invalid |-> FALSE,
   presented |-> [s \in Pixels |->
                    IF c.invalid \/ ToCanvas(vp, s) \in DirtyUnion(c)
                    THEN FullComposite(ls, vp)[s]
                    ELSE c.presented[s]]]

(***************************************************************************)
(* History manager: pure operations on [past, present, future]             *)
(***************************************************************************)
Entry(ls, vp, actionType) ==
  [layers |-> ls, viewport |-> vp, actionType |-> actionType]

HPushKeepFuture(h, e) ==
  [past |-> IF Len(h.past) >= HISTORY_LIMIT
            THEN Append(Tail(h.past), h.present)
            ELSE Append(h.past, h.present),
   present |-> e,
   future |-> h.future]

HPushNoEvict(h, e) ==
  [past |-> Append(h.past, h.present), present |-> e, future |-> <<>>]

HPushShared(h, e) ==
  [past |-> IF Len(h.past) >= HISTORY_LIMIT
            THEN Append(Tail(h.past), [h.present EXCEPT !.layers = e.layers])
            ELSE Append(h.past, [h.present EXCEPT !.layers = e.layers]),
   present |-> e,
   future |-> <<>>]

HPush(h, e) ==
  [past |-> IF Len(h.past) >= HISTORY_LIMIT
            THEN Append(Tail(h.past), h.present)
            ELSE Append(h.past, h.present),
   present |-> e,
   future |-> <<>>]

CanUndoDeep(h) == Len(h.past) > 1

CanUndo(h) == h.past # <<>>

CanRedo(h) == h.future # <<>>

HUndoOldest(h) ==
  IF ~CanUndo(h) THEN h
  ELSE [past |-> Tail(h.past),
        present |-> Head(h.past),
        future |-> <<h.present>> \o h.future]

HUndo(h) ==
  IF ~CanUndo(h) THEN h
  ELSE [past |-> Front(h.past),
        present |-> Last(h.past),
        future |-> <<h.present>> \o h.future]

HRedo(h) ==
  IF ~CanRedo(h) THEN h
  ELSE [past |-> Append(h.past, h.present),
        present |-> Head(h.future),
        future |-> Tail(h.future)]

\* flush of the debouncer's pending entry: one push of the live state
Flush(h, pend, ls, vp) ==
  IF pend = "NONE" THEN h ELSE HPush(h, Entry(ls, vp, pend))

(***************************************************************************)
(* Segmentation request token                                              *)
(***************************************************************************)
IsCurrentAlways(r, tok) == TRUE

IsCurrent(r, tok) == r.token = tok

TokenKept(tok, old, new) == tok

TokenAfterToolSwitch(tok, old, new) == IF old # new THEN NoToken ELSE tok

TokenStillCurrent(tok) == tok

\* the current request after the caller's timeout: none
TokenAfterTimeout(tok) == NoToken


(***************************************************************************)
(* Engine facade: state after construction                                 *)
(***************************************************************************)
\* the outcome of a call: the error it raised, or "none"
Outcome(call, error) == [call |-> call, error |-> error]

InitHistory ==
  [past |-> <<>>, present |-> Entry(<<>>, DefaultViewport, "NONE"), future |-> <<>>]

Interrupted == 0 - 1

Init ==
  /\ layers = <<>>
  /\ activeLayerId = NoLayer
  /\ activeTool = "BRUSH"
  /\ viewport = DefaultViewport
  /\ history = InitHistory
  /\ isDrawing = FALSE
  /\ lastPoint = NoPoint
  /\ pending = "NONE"
  /\ segToken = NoToken
  /\ inflight = {}
  /\ nextId = 1
  /\ nextToken = 1
  /\ applied = <<>>
  /\ discarded = {}
  /\ stale = {}
  /\ used = 0
  /\ strokeEntries = Interrupted
  /\ image = NoImage
  /\ outline = <<>>
  /\ buffer = EmptyBuffer
  /\ compositor = NewCompositor
  /\ transform = DefaultTransform
  /\ result = Outcome("none", "none")

HasActiveLayer == activeLayerId \in LayerIds(layers)

\* a call that fails (an error raised, or false returned): nothing changes
Fails(name, error) ==
  UNCHANGED <<layers, activeLayerId, activeTool, viewport, history,
              isDrawing, lastPoint, pending, segToken, inflight,
              nextId, nextToken, applied, discarded, stale, image, outline, buffer, compositor, transform>>

DiscreteCoalesced(actionType, newLayers, newActive) ==
  /\ layers' = newLayers
  /\ activeLayerId' = newActive
  /\ history' = IF pending \notin {"NONE", actionType}
                THEN Flush(history, pending, layers, viewport) ELSE history
  /\ pending' = actionType
  /\ UNCHANGED <<activeTool, viewport, isDrawing, lastPoint, segToken,
                 inflight, nextToken, applied, discarded, stale,
                 image, outline, buffer, compositor, transform>>

\* a discrete layer action: pending coalesced entry flushed, state changed,
\* one entry pushed at once
Discrete(actionType, newLayers, newActive) ==
  /\ layers' = newLayers
  /\ activeLayerId' = newActive
  /\ history' = HPush(Flush(history, pending, layers, viewport),
                      Entry(newLayers, viewport, actionType))
  /\ pending' = "NONE"
  /\ UNCHANGED <<activeTool, viewport, isDrawing, lastPoint, segToken,
                 inflight, nextToken, applied, discarded, stale,
                 image, outline, buffer, compositor, transform>>

(***************************************************************************)
(* Layer operations                                                        *)
(***************************************************************************)
CreateErrorNoLimit == "none"

\* the error createLayer raises, or "none"
CreateError == IF Len(layers) >= MAX_LAYERS THEN "LayerError" ELSE "none"

CreateLayer ==
  IF CreateError # "none"
  THEN Fails("createLayer", CreateError)
  ELSE /\ Discrete("LAYER_ADD",
                   Append(layers, NewLayer(nextId, Len(layers))), nextId)
       /\ nextId' = nextId + 1

\* the error an operation on layer id raises, or "none"
LayerOpError(id) ==
  IF id \notin LayerIds(layers) THEN "LayerError" ELSE "none"

DeleteLayer(id) ==
  IF LayerOpError(id) # "none"
  THEN Fails("deleteLayer", LayerOpError(id))
  ELSE /\ Discrete("LAYER_DELETE", DeleteLayers(layers, id),
                   ActiveAfterDelete(layers, id, activeLayerId))
       /\ UNCHANGED nextId

\* a reorder that changes nothing (top layer up, bottom layer down) is a no-op
Reorder(name, id, newLayers) ==
  IF LayerOpError(id) # "none"
  THEN Fails(name, LayerOpError(id))
  ELSE IF newLayers = layers
  THEN UNCHANGED <<layers, activeLayerId, activeTool, viewport, history,
                   isDrawing, lastPoint, pending, segToken, inflight,
                   nextId, nextToken, applied, discarded, stale,
                   image, outline, buffer, compositor, transform>>
  ELSE /\ Discrete("LAYER_REORDER", newLayers, activeLayerId)
       /\ UNCHANGED nextId

MoveUp(id) ==
  Reorder("moveUp", id, IF id \in LayerIds(layers) THEN MoveUpLayers(layers, id) ELSE layers)

MoveDown(id) ==
  Reorder("moveDown", id, IF id \in LayerIds(layers) THEN MoveDownLayers(layers, id) ELSE layers)

MoveToTop(id) ==
  Reorder("moveToTop", id, IF id \in LayerIds(layers) THEN MoveToTopLayers(layers, id) ELSE layers)

MoveToBottom(id) ==
  Reorder("moveToBottom", id, IF id \in LayerIds(layers) THEN MoveToBottomLayers(layers, id) ELSE layers)

SetActiveLayer(id) ==
  IF LayerOpError(id) # "none"
  THEN Fails("setActiveLayer", LayerOpError(id))
  ELSE /\ activeLayerId' = id
       /\ UNCHANGED <<layers, activeTool, viewport, history, isDrawing,
                      lastPoint, pending, segToken, inflight, nextId,
                      nextToken, applied, discarded, stale, image, outline, buffer, compositor, transform>>

\* the error renameLayer raises, or "none"
RenameError(id, name) ==
  IF id \notin LayerIds(layers) \/ ~ValidName(name)
  THEN "LayerError" ELSE "none"

Rename(id, name) ==
  IF RenameError(id, name) # "none"
  THEN Fails("renameLayer", RenameError(id, name))
  ELSE /\ Discrete("LAYER_RENAME", SetField(layers, id, "name", name),
                   activeLayerId)
       /\ UNCHANGED nextId

\* the error setLayerColor raises, or "none"
SetColorError(id, color) ==
  IF id \notin LayerIds(layers) \/ ~ValidColor(color)
  THEN "LayerError" ELSE "none"

SetColor(id, color) ==
  IF SetColorError(id, color) # "none"
  THEN Fails("setLayerColor", SetColorError(id, color))
  ELSE /\ Discrete("LAYER_COLOR", SetField(layers, id, "color", color),
                   activeLayerId)
       /\ UNCHANGED nextId

\* the error setLayerOpacity raises, or "none"
SetOpacityError(id, opacity) ==
  IF id \notin LayerIds(layers) \/ ~ValidOpacity(opacity)
  THEN "LayerError" ELSE "none"

\* the action types have none for opacity: the layer changes, no entry is
\* pushed
SetOpacity(id, opacity) ==
  IF SetOpacityError(id, opacity) # "none"
  THEN Fails("setLayerOpacity", SetOpacityError(id, opacity))
  ELSE /\ layers' = SetField(layers, id, "opacity", opacity)
       /\ UNCHANGED <<activeLayerId, activeTool, viewport, history,
                      isDrawing, lastPoint, pending, segToken, inflight,
                      nextId, nextToken, applied, discarded, stale,
                      image, outline, buffer, compositor, transform>>

SetVisibilityKeepsOne(id, visible) ==
  IF LayerOpError(id) # "none"
       \/ (~visible /\ \A i \in 1..Len(layers) :
                         layers[i].visible => layers[i].id = id)
  THEN Fails("setLayerVisibility", LayerOpError(id))
  ELSE /\ layers' = SetField(layers, id, "visible", visible)
       /\ UNCHANGED <<activeLayerId, activeTool, viewport, history,
                      isDrawing, lastPoint, pending, segToken, inflight,
                      nextId, nextToken, applied, discarded, stale,
                      image, outline, buffer, compositor, transform>>

\* like opacity, visibility has no action type: no entry is pushed
SetVisibility(id, visible) ==
  IF LayerOpError(id) # "none"
  THEN Fails("setLayerVisibility", LayerOpError(id))
  ELSE /\ layers' = SetField(layers, id, "visible", visible)
       /\ UNCHANGED <<activeLayerId, activeTool, viewport, history,
                      isDrawing, lastPoint, pending, segToken, inflight,
                      nextId, nextToken, applied, discarded, stale,
                      image, outline, buffer, compositor, transform>>

SetActiveTool(tool) ==
  /\ activeTool' = tool
  /\ segToken' = TokenAfterToolSwitch(segToken, activeTool, tool)
  /\ stale' = IF tool # activeTool
              THEN stale \cup {r.token : r \in inflight} ELSE stale
  /\ UNCHANGED <<layers, activeLayerId, viewport, history, isDrawing,
                 lastPoint, pending, inflight, nextId, nextToken,
                 applied, discarded, image, outline, buffer, compositor, transform>>

(***************************************************************************)
(* Freehand strokes (brush and eraser) and the stroke debouncer            *)
(***************************************************************************)
StrokePointUnflushed(region) ==
  /\ layers' = PaintLayers(layers, activeLayerId, region, BrushValue(activeTool))
  /\ history' = history
  /\ pending' = StrokeCategory(activeTool)

\* one stroke point: the pending entry of another category is flushed, the
\* footprint is written to the active layer, the stroke timer is (re)armed
StrokePoint(region) ==
  LET cat == StrokeCategory(activeTool)
      other == pending \notin {"NONE", cat}
  IN /\ layers' = PaintLayers(layers, activeLayerId, region, BrushValue(activeTool))
     /\ history' = IF other THEN Flush(history, pending, layers, viewport)
                   ELSE history
     /\ pending' = cat

DrawErrorNever == "none"

\* the error a drawing operation raises, or "none"
DrawError == IF ~HasActiveLayer THEN "ToolError" ELSE "none"

StartDrawing(p) ==
  IF DrawError # "none"
  THEN Fails("startDrawing", DrawError)
  ELSE /\ StrokePoint({p})
       /\ isDrawing' = TRUE
       /\ lastPoint' = p
       /\ UNCHANGED <<activeLayerId, activeTool, viewport, segToken, inflight,
                      nextId, nextToken, applied, discarded, stale,
                      image, outline, buffer, compositor, transform>>

ContinueDrawing(p) ==
  IF DrawError # "none"
  THEN Fails("continueDrawing", DrawError)
  ELSE /\ StrokePoint(Segment(lastPoint, p))
       /\ lastPoint' = p
       /\ UNCHANGED <<activeLayerId, activeTool, viewport, isDrawing, segToken,
                      inflight, nextId, nextToken, applied, discarded, stale,
                      image, outline, buffer, compositor, transform>>

\* erase at one point: the pixel is cleared, the entry coalesces with the
\* eraser strokes
Erase(p) ==
  IF DrawError # "none"
  THEN Fails("erase", DrawError)
  ELSE /\ layers' = PaintLayers(layers, activeLayerId, {p}, 0)
       /\ history' = IF pending \notin {"NONE", "ERASE"}
                     THEN Flush(history, pending, layers, viewport)
                     ELSE history
       /\ pending' = "ERASE"
       /\ UNCHANGED <<activeLayerId, activeTool, viewport, isDrawing,
                      lastPoint, segToken, inflight, nextId, nextToken,
                      applied, discarded, stale, image, outline, buffer, compositor, transform>>

\* pointer up: the stroke is committed, a pending stroke entry is pushed
EndDrawing ==
  LET commit == pending \in StrokeCategories
  IN /\ isDrawing' = FALSE
     /\ lastPoint' = NoPoint
     /\ history' = IF commit THEN Flush(history, pending, layers, viewport)
                   ELSE history
     /\ pending' = IF commit THEN "NONE" ELSE pending
     /\ UNCHANGED <<layers, activeLayerId, activeTool, viewport, segToken,
                    inflight, nextId, nextToken, applied, discarded, stale,
                    image, outline, buffer, compositor, transform>>

DebounceDropped ==
  /\ history' = history
  /\ pending' = "NONE"
  /\ UNCHANGED <<layers, activeLayerId, activeTool, viewport, isDrawing,
                 lastPoint, segToken, inflight, nextId, nextToken,
                 applied, discarded, stale, image, outline, buffer, compositor, transform>>

\* the debounce timer of the pending entry expires
DebounceExpired ==
  /\ history' = Flush(history, pending, layers, viewport)
  /\ pending' = "NONE"
  /\ UNCHANGED <<layers, activeLayerId, activeTool, viewport, isDrawing,
                 lastPoint, segToken, inflight, nextId, nextToken,
                 applied, discarded, stale, image, outline, buffer, compositor, transform>>

(***************************************************************************)
(* Outline (polygon) tool                                                  *)
(***************************************************************************)
\* a point is added to the open outline; nothing is committed
AddOutlinePoint(p) ==
  /\ outline' = Append(outline, p)
  /\ UNCHANGED <<layers, activeLayerId, activeTool, viewport, history,
                 isDrawing, lastPoint, pending, segToken, inflight, nextId,
                 nextToken, applied, discarded, stale, image, buffer, compositor, transform>>

CanCloseAlways(points) == TRUE

CanClose(points) == Len(points) >= MIN_POLYGON_POINTS

\* the error closeOutline raises, or "none"
CloseOutlineError ==
  IF ~HasActiveLayer \/ ~CanClose(outline) THEN "ToolError" ELSE "none"

\* the polygon is filled into the active layer and pushed at once; the
\* outline starts afresh
CloseOutline ==
  IF CloseOutlineError # "none"
  THEN Fails("closeOutline", CloseOutlineError)
  ELSE LET filled == PaintLayers(layers, activeLayerId,
                                 PolygonFill(outline), FullAlpha)
       IN /\ layers' = filled
          /\ history' = HPush(Flush(history, pending, layers, viewport),
                              Entry(filled, viewport, "DRAW"))
          /\ pending' = "NONE"
          /\ outline' = <<>>
          /\ UNCHANGED <<activeLayerId, activeTool, viewport, isDrawing,
                         lastPoint, segToken, inflight, nextId, nextToken,
                         applied, discarded, stale, image, buffer, compositor, transform>>

(***************************************************************************)
(* Viewport operations                                                     *)
(***************************************************************************)
CoalesceNever(h, pend, ls, vp) == Flush(h, pend, ls, vp)

\* the history after a viewport change: a pending entry of another kind is
\* flushed, a pending viewport entry goes on waiting
Coalesce(h, pend, ls, vp) ==
  IF pend \notin {"NONE", "VIEWPORT_CHANGE"} THEN Flush(h, pend, ls, vp)
  ELSE h

Zoom(factor) ==
  /\ viewport' = ZoomBy(viewport, factor)
  /\ history' = Coalesce(history, pending, layers, viewport)
  /\ pending' = "VIEWPORT_CHANGE"
  /\ UNCHANGED <<layers, activeLayerId, activeTool, isDrawing, lastPoint,
                 segToken, inflight, nextId, nextToken, applied,
                 discarded, stale, image, outline, buffer, compositor, transform>>

Pan(delta) ==
  /\ viewport' = PanBy(viewport, delta)
  /\ history' = Coalesce(history, pending, layers, viewport)
  /\ pending' = "VIEWPORT_CHANGE"
  /\ UNCHANGED <<layers, activeLayerId, activeTool, isDrawing, lastPoint,
                 segToken, inflight, nextId, nextToken, applied,
                 discarded, stale, image, outline, buffer, compositor, transform>>

\* a viewport operation other than zoom and pan: the viewport is replaced,
\* the change waits for the viewport debounce
ViewportChange(vp) ==
  /\ viewport' = vp
  /\ history' = Coalesce(history, pending, layers, viewport)
  /\ pending' = "VIEWPORT_CHANGE"
  /\ UNCHANGED <<layers, activeLayerId, activeTool, isDrawing, lastPoint,
                 segToken, inflight, nextId, nextToken, applied,
                 discarded, stale, image, outline, buffer, compositor, transform>>

SetZoom(zoom) == ViewportChange([viewport EXCEPT !.zoom = ClampZoom(zoom)])

ResetViewport == ViewportChange(DefaultViewport)

\* the zoom (in hundredths) at which a canvas of the given width fills the
\* viewport
FitZoom(canvasWidth, viewportWidth) == (viewportWidth * 100) \div canvasWidth

FitToScreen(canvasWidth, viewportWidth) ==
  ViewportChange([zoom |-> FitZoom(canvasWidth, viewportWidth), pan |-> 0])

(***************************************************************************)
(* Undo and redo                                                           *)
(***************************************************************************)
\* the part of the engine state that undo and redo act on
Live == [history |-> history, layers |-> layers, viewport |-> viewport]

\* the history's new present becomes the engine's live layers and viewport
AfterUndo(e) ==
  LET h == HUndo(e.history)
  IN [history |-> h, layers |-> h.present.layers, viewport |-> h.present.viewport]

AfterRedo(e) ==
  LET h == HRedo(e.history)
  IN [history |-> h, layers |-> h.present.layers, viewport |-> h.present.viewport]

Restore(e) ==
  /\ history' = e.history
  /\ layers' = e.layers
  /\ viewport' = e.viewport
  /\ UNCHANGED <<activeLayerId, activeTool, isDrawing, lastPoint, pending,
                 segToken, inflight, nextId, nextToken, applied, discarded,
                 stale, image, outline, buffer, compositor, transform>>

\* the history manager's answer: false when there is nothing to undo
UndoError == IF CanUndo(history) THEN "none" ELSE "false"

Undo ==
  IF UndoError # "none" THEN Fails("undo", UndoError)
  ELSE Restore(AfterUndo(Live))

RedoError == IF CanRedo(history) THEN "none" ELSE "false"

Redo ==
  IF RedoError # "none" THEN Fails("redo", RedoError)
  ELSE Restore(AfterRedo(Live))

(***************************************************************************)
(* Segmentation (magnetic brush)                                           *)
(***************************************************************************)
\* a request is issued: it carries its token, the point clicked and, for the
\* record, the layer that was active when it was issued
ApplyMagneticBrush(p) ==
  IF DrawError # "none"
  THEN Fails("applyMagneticBrush", DrawError)
  ELSE /\ segToken' = nextToken
       /\ nextToken' = nextToken + 1
       /\ inflight' = inflight \cup
                        {[token |-> nextToken, point |-> p, layer |-> activeLayerId]}
       /\ stale' = stale \cup {r.token : r \in inflight}
       /\ UNCHANGED <<layers, activeLayerId, activeTool, viewport, history,
                      isDrawing, lastPoint, pending, nextId, applied, discarded,
                      image, outline, buffer, compositor, transform>>

\* the provider's result for request r arrives
SegArrive(r, region) ==
  /\ inflight' = inflight \ {r}
  /\ stale' = stale \ {r.token}
  /\ IF ~IsCurrent(r, segToken)
     THEN /\ discarded' = discarded \cup {r.token}
          /\ UNCHANGED <<layers, activeLayerId, activeTool, viewport, history,
                         isDrawing, lastPoint, pending, segToken, nextId,
                         nextToken, applied, image, outline, buffer, compositor, transform>>
     ELSE IF ~HasActiveLayer
     THEN /\ segToken' = NoToken
          /\ UNCHANGED <<layers, activeLayerId, activeTool, viewport, history,
                         isDrawing, lastPoint, pending, nextId, nextToken,
                         applied, discarded, image, outline, buffer, compositor, transform>>
     ELSE LET stamped == PaintLayers(layers, activeLayerId, region, FullAlpha)
          IN /\ layers' = stamped
             /\ history' = HPush(Flush(history, pending, layers, viewport),
                                 Entry(stamped, viewport, "DRAW"))
             /\ pending' = "NONE"
             /\ segToken' = NoToken
             /\ applied' = Append(applied, [token |-> r.token, layer |-> activeLayerId])
             /\ UNCHANGED <<activeLayerId, activeTool, viewport, isDrawing,
                            lastPoint, nextId, nextToken, discarded,
                            image, outline, buffer, compositor, transform>>

\* the error the stamping of request r's result raises, or "none"
StampError(r) ==
  IF IsCurrent(r, segToken) /\ ~HasActiveLayer THEN "ToolError" ELSE "none"

\* the error the rejection of request r raises at the caller, or "none"
RejectError(r) ==
  IF IsCurrent(r, segToken) THEN "SegmentationError" ELSE "none"

\* the provider rejects request r
SegReject(r) ==
  /\ inflight' = inflight \ {r}
  /\ segToken' = IF IsCurrent(r, segToken) THEN NoToken ELSE segToken
  /\ stale' = stale \ {r.token}
  /\ UNCHANGED <<layers, activeLayerId, activeTool, viewport, history,
                 isDrawing, lastPoint, pending, nextId, nextToken,
                 applied, discarded, image, outline, buffer, compositor, transform>>

\* the caller's timeout of the current request expires
SegTimeout ==
  /\ segToken' = TokenAfterTimeout(segToken)
  /\ UNCHANGED <<layers, activeLayerId, activeTool, viewport, history,
                 isDrawing, lastPoint, pending, inflight, nextId, nextToken,
                 applied, discarded, stale, image, outline, buffer, compositor, transform>>

(***************************************************************************)
(* Export                                                                  *)
(***************************************************************************)
MaskExport(l) ==
  [id |-> l.id, name |-> l.name, color |-> l.color, maskData |-> l.mask,
   bounds |-> MaskBounds(l.mask), zIndex |-> l.zIndex]

ExportDataVisible(ls) ==
  LET shown == GetVisibleLayers(ls)
  IN [masks |-> [i \in 1..Len(shown) |-> MaskExport(shown[i])],
      metadata |-> [layerCount |-> Len(shown)]]

\* one entry per layer of the store, and their number
ExportData(ls) ==
  [masks |-> [i \in 1..Len(ls) |-> MaskExport(ls[i])],
   metadata |-> [layerCount |-> Len(ls)]]

\* the error of an export, or "none"
ExportError == IF layers = <<>> THEN "ExportError" ELSE "none"

\* what the caller of exportData gets
Exported ==
  [call |-> "exportData", error |-> ExportError,
   data |-> IF ExportError # "none" THEN <<>> ELSE ExportData(layers)]

\* an export reads the store and changes nothing
Export == Fails("exportData", ExportError)

(***************************************************************************)
(* Base image                                                              *)
(***************************************************************************)
ImageFormats == {"png", "jpg", "webp"}

\* files offered to loadImage: small, of exactly the largest size allowed
\* and one byte larger, in the supported formats and in another one
ImageInputs ==
  [id : {1, 2},
   fileSize : {1024, MAX_IMAGE_SIZE, MAX_IMAGE_SIZE + 1},
   format : ImageFormats \cup {"gif"}]

ValidImageAnyFormat(file) == file.fileSize <= MAX_IMAGE_SIZE

ValidImage(file) ==
  file.fileSize <= MAX_IMAGE_SIZE /\ file.format \in ImageFormats

\* the error loadImage raises for a file, or "none"
LoadImageError(file) ==
  IF ValidImage(file) THEN "none" ELSE "ImageLoadError"

HClear(vp) == [past |-> <<>>, present |-> Entry(<<>>, vp, "NONE"), future |-> <<>>]

\* a valid file becomes the base image; layers drawn so far are kept
LoadImage(file) ==
  IF LoadImageError(file) # "none"
  THEN Fails("loadImage", LoadImageError(file))
  ELSE /\ image' = file.id
       /\ UNCHANGED <<layers, activeLayerId, activeTool, viewport, history,
                      isDrawing, lastPoint, pending, segToken, inflight,
                      nextId, nextToken, outline, buffer, compositor,
                      transform, applied, discarded, stale>>

\* the base image is dropped, and with it the layers and their history
ClearImage ==
  /\ image' = NoImage
  /\ layers' = <<>>
  /\ activeLayerId' = NoLayer
  /\ history' = HClear(viewport)
  /\ pending' = "NONE"
  /\ isDrawing' = FALSE
  /\ lastPoint' = NoPoint
  /\ outline' = <<>>
  /\ segToken' = NoToken
  /\ stale' = stale \cup {r.token : r \in inflight}
  /\ UNCHANGED <<activeTool, viewport, inflight, nextId, nextToken,
                 buffer, compositor, transform, applied, discarded>>

(***************************************************************************)
(* Callers: the input layer, the UI, the timers and the provider           *)
(***************************************************************************)
IssuedIds == 1..(nextId - 1)

\* one unit of the action budget for a call that changes the engine's state
Charge == used' = used + (IF engine' # engine THEN 1 ELSE 0)

Free == used' = used

\* entries pushed for the stroke in progress by its own pointer events and
\* its timer; Interrupted once another call has changed the engine meanwhile
StrokeStarts ==
  strokeEntries' = IF engine' # engine THEN 0 ELSE strokeEntries

StrokeGoesOn ==
  strokeEntries' =
    IF ~isDrawing \/ strokeEntries = Interrupted THEN strokeEntries
    ELSE strokeEntries + (IF history' # history THEN 1 ELSE 0)

OtherCall ==
  strokeEntries' =
    IF isDrawing /\ engine' # engine THEN Interrupted ELSE strokeEntries

\* a call whose outcome is not observed
Unobserved == UNCHANGED result

CallCreateLayer ==
  used < MaxActions /\ CreateLayer /\ Charge /\ OtherCall /\ Unobserved

CallDeleteLayer ==
  used < MaxActions /\ (\E id \in IssuedIds : DeleteLayer(id)) /\ Charge /\ OtherCall /\ Unobserved

CallMoveUp ==
  used < MaxActions /\ (\E id \in IssuedIds : MoveUp(id)) /\ Charge /\ OtherCall /\ Unobserved

CallMoveDown ==
  used < MaxActions /\ (\E id \in IssuedIds : MoveDown(id)) /\ Charge /\ OtherCall /\ Unobserved

CallMoveToTop ==
  used < MaxActions /\ (\E id \in IssuedIds : MoveToTop(id)) /\ Charge /\ OtherCall /\ Unobserved

CallMoveToBottom ==
  used < MaxActions /\ (\E id \in IssuedIds : MoveToBottom(id)) /\ Charge /\ OtherCall /\ Unobserved

CallSetActiveLayer ==
  (\E id \in IssuedIds : SetActiveLayer(id)) /\ Free /\ OtherCall /\ Unobserved

CallSetActiveTool ==
  (\E tool \in ToolInputs : SetActiveTool(tool)) /\ Free /\ OtherCall /\ Unobserved

PointerDown ==
  /\ ~isDrawing
  /\ activeTool \in DrawTools
  /\ used < MaxActions
  /\ \E p \in Pixels : StartDrawing(p)
  /\ Charge
  /\ StrokeStarts /\ Unobserved

\* a move that carries on the pending stroke entry starts no new action
PointerMove ==
  /\ isDrawing
  /\ activeTool \in DrawTools
  /\ pending = StrokeCategory(activeTool) \/ used < MaxActions
  /\ \E p \in Pixels : ContinueDrawing(p)
  /\ IF pending = StrokeCategory(activeTool) THEN Free ELSE Charge
  /\ StrokeGoesOn /\ Unobserved

PointerUp == isDrawing /\ EndDrawing /\ Free /\ StrokeGoesOn /\ Unobserved

StrokeTimeout ==
  pending \in StrokeCategories /\ DebounceExpired /\ Free /\ StrokeGoesOn /\ Unobserved

ViewportTimeout ==
  pending = "VIEWPORT_CHANGE" /\ DebounceExpired /\ Free /\ OtherCall /\ Unobserved

CallZoom ==
  used < MaxActions /\ (\E factor \in ZoomFactors : Zoom(factor)) /\ Charge /\ OtherCall /\ Unobserved

CallUndo ==
  used < MaxActions /\ Undo /\ Charge /\ OtherCall /\ Unobserved

CallRedo ==
  used < MaxActions /\ Redo /\ Charge /\ OtherCall /\ Unobserved

CallMagneticBrush ==
  /\ activeTool = "MAGNETIC_BRUSH"
  /\ used < MaxActions
  /\ \E p \in Pixels : ApplyMagneticBrush(p)
  /\ Charge
  /\ OtherCall /\ Unobserved

ProviderResolves ==
  /\ \E r \in inflight : \E region \in SegRegions(r.point) : SegArrive(r, region)
  /\ Free
  /\ OtherCall /\ Unobserved

ProviderRejects ==
  (\E r \in inflight : SegReject(r)) /\ Free /\ OtherCall /\ Unobserved

RequestTimesOut ==
  segToken # NoToken /\ SegTimeout /\ Free /\ OtherCall /\ Unobserved

Next ==
  \/ CallCreateLayer
  \/ CallDeleteLayer
  \/ CallMoveUp
  \/ CallMoveDown
  \/ CallMoveToTop
  \/ CallMoveToBottom
  \/ CallSetActiveLayer
  \/ CallSetActiveTool
  \/ PointerDown
  \/ PointerMove
  \/ PointerUp
  \/ StrokeTimeout
  \/ ViewportTimeout
  \/ CallZoom
  \/ CallUndo
  \/ CallRedo
  \/ CallMagneticBrush
  \/ ProviderResolves
  \/ ProviderRejects
  \/ RequestTimesOut

Spec == Init /\ [][Next]_vars

(***************************************************************************)
(* The history-limit scenario: a run of recorded actions, then undo until  *)
(* nothing is left to undo                                                 *)
(***************************************************************************)
ScriptAction ==
  /\ used < MaxScript
  /\ ~CanRedo(history)
  /\ CreateLayer
  /\ Charge
  /\ OtherCall /\ Unobserved

ScriptUndo == Undo /\ Free /\ OtherCall /\ Unobserved

ScriptNext == ScriptAction \/ ScriptUndo

SpecHistoryLimit == Init /\ [][ScriptNext]_vars

(***************************************************************************)
(* The layer-limit scenario: layers created until the store is full and    *)
(* one more is asked for, with undo and redo along the way                 *)
(***************************************************************************)
FillStore ==
  /\ used < MaxCreates
  /\ ~CanRedo(history)
  /\ CreateLayer
  /\ result' = Outcome("createLayer", CreateError)
  /\ Charge
  /\ OtherCall

FillUndo == Undo /\ Free /\ OtherCall /\ Unobserved

FillRedo == Redo /\ Free /\ OtherCall /\ Unobserved

FillNext == FillStore \/ FillUndo \/ FillRedo

SpecLayerLimit == Init /\ [][FillNext]_vars

(***************************************************************************)
(* Layer editing with the outcome of every call observed: valid and        *)
(* invalid values, existing and unknown layer ids; viewport changes and    *)
(* undo/redo in between                                                    *)
(***************************************************************************)
CallPan ==
  /\ used < MaxActions
  /\ \E delta \in PanDeltas : Pan(delta)
  /\ Charge
  /\ OtherCall
  /\ Unobserved

\* the ids issued so far and one never issued
IdInputs == 1..nextId

TryCreateLayer ==
  /\ used < MaxActions
  /\ CreateLayer
  /\ result' = Outcome("createLayer", CreateError)
  /\ Charge
  /\ OtherCall

TryDeleteLayer ==
  /\ used < MaxActions
  /\ \E id \in IdInputs : 
       DeleteLayer(id) /\ result' = Outcome("deleteLayer", LayerOpError(id))
  /\ Charge
  /\ OtherCall

TryMoveUp ==
  /\ used < MaxActions
  /\ \E id \in IdInputs : 
       MoveUp(id) /\ result' = Outcome("moveUp", LayerOpError(id))
  /\ Charge
  /\ OtherCall

TryMoveDown ==
  /\ used < MaxActions
  /\ \E id \in IdInputs : 
       MoveDown(id) /\ result' = Outcome("moveDown", LayerOpError(id))
  /\ Charge
  /\ OtherCall

TrySetActiveLayer ==
  /\ \E id \in IdInputs : 
       SetActiveLayer(id) /\ result' = Outcome("setActiveLayer", LayerOpError(id))
  /\ Free
  /\ OtherCall

TryRename ==
  /\ used < MaxActions
  /\ \E id \in IdInputs : \E name \in NameInputs :
       /\ Rename(id, name)
       /\ result' = Outcome("renameLayer", RenameError(id, name))
  /\ Charge
  /\ OtherCall

TrySetColor ==
  /\ used < MaxActions
  /\ \E id \in IdInputs : \E color \in ColorInputs :
       /\ SetColor(id, color)
       /\ result' = Outcome("setLayerColor", SetColorError(id, color))
  /\ Charge
  /\ OtherCall

TrySetOpacity ==
  /\ used < MaxActions
  /\ \E id \in IdInputs : \E opacity \in OpacityInputs :
       /\ SetOpacity(id, opacity)
       /\ result' = Outcome("setLayerOpacity", SetOpacityError(id, opacity))
  /\ Charge
  /\ OtherCall

(***************************************************************************)
(* The drawing tools with the outcome of every call observed: strokes,     *)
(* erase, outline and segmentation, with and without an active layer       *)
(***************************************************************************)
TryStartDrawing ==
  /\ ~isDrawing
  /\ used < MaxActions
  /\ \E p \in Pixels : StartDrawing(p)
  /\ result' = Outcome("startDrawing", DrawError)
  /\ Charge
  /\ StrokeStarts

TryContinueDrawing ==
  /\ isDrawing
  /\ pending = StrokeCategory(activeTool) \/ used < MaxActions
  /\ \E p \in Pixels : ContinueDrawing(p)
  /\ result' = Outcome("continueDrawing", DrawError)
  /\ IF pending = StrokeCategory(activeTool) THEN Free ELSE Charge
  /\ StrokeGoesOn

TryErase ==
  /\ used < MaxActions
  /\ \E p \in Pixels : Erase(p)
  /\ result' = Outcome("erase", DrawError)
  /\ Charge
  /\ OtherCall

TryAddOutlinePoint ==
  /\ used < MaxActions
  /\ \E p \in Pixels : AddOutlinePoint(p)
  /\ result' = Outcome("addOutlinePoint", "none")
  /\ Charge
  /\ OtherCall

TryCloseOutline ==
  /\ used < MaxActions
  /\ CloseOutline
  /\ result' = Outcome("closeOutline", CloseOutlineError)
  /\ Charge
  /\ OtherCall

TryMagneticBrush ==
  /\ used < MaxActions
  /\ \E p \in Pixels : ApplyMagneticBrush(p)
  /\ result' = Outcome("applyMagneticBrush", DrawError)
  /\ Charge
  /\ OtherCall

\* a result that is discarded has no outcome
StampResult ==
  /\ \E r \in inflight : \E region \in SegRegions(r.point) :
       /\ SegArrive(r, region)
       /\ result' = IF IsCurrent(r, segToken)
                    THEN Outcome("applySegmentation", StampError(r))
                    ELSE result
  /\ Free
  /\ OtherCall

RejectResult ==
  /\ \E r \in inflight :
       /\ SegReject(r)
       /\ result' = IF IsCurrent(r, segToken)
                    THEN Outcome("applyMagneticBrush", RejectError(r))
                    ELSE result
  /\ Free
  /\ OtherCall

TimeoutResult ==
  /\ segToken # NoToken
  /\ SegTimeout
  /\ result' = Outcome("applyMagneticBrush", "SegmentationError")
  /\ Free
  /\ OtherCall

EditNext ==
  \/ TryCreateLayer
  \/ TryDeleteLayer
  \/ TryMoveUp
  \/ TryMoveDown
  \/ TrySetActiveLayer
  \/ TryRename
  \/ TrySetColor
  \/ TrySetOpacity
  \/ TryMagneticBrush
  \/ StampResult
  \/ CallZoom
  \/ CallPan
  \/ ViewportTimeout
  \/ CallUndo
  \/ CallRedo

SpecEdits == Init /\ [][EditNext]_vars

ToolNext ==
  \/ TryCreateLayer
  \/ TryDeleteLayer
  \/ TryStartDrawing
  \/ TryContinueDrawing
  \/ PointerUp
  \/ StrokeTimeout
  \/ TryErase
  \/ TryAddOutlinePoint
  \/ TryCloseOutline
  \/ TryMagneticBrush
  \/ StampResult
  \/ RejectResult
  \/ TimeoutResult

SpecTools == Init /\ [][ToolNext]_vars

(***************************************************************************)
(* The outline scenario: points placed one by one, the outline closed      *)
(* early and in time, with and without a layer to fill                     *)
(***************************************************************************)
PlaceOutlinePoint ==
  /\ Len(outline) < MaxPoints
  /\ \E p \in Pixels : AddOutlinePoint(p)
  /\ result' = Outcome("addOutlinePoint", "none")
  /\ Free
  /\ OtherCall

TryUndo ==
  /\ used < MaxActions
  /\ Undo
  /\ result' = Outcome("undo", UndoError)
  /\ Charge
  /\ OtherCall

TryRedo ==
  /\ used < MaxActions
  /\ Redo
  /\ result' = Outcome("redo", RedoError)
  /\ Charge
  /\ OtherCall

OutlineNext ==
  \/ TryCreateLayer
  \/ PlaceOutlinePoint
  \/ TryCloseOutline
  \/ TryErase
  \/ StrokeTimeout
  \/ TryUndo
  \/ TryRedo

SpecOutline == Init /\ [][OutlineNext]_vars

(***************************************************************************)
(* Layers with and without a base image: images loaded and cleared, layers *)
(* created, erased on and deleted, undo and redo                           *)
(***************************************************************************)
CallLoadImage ==
  /\ used < MaxActions
  /\ \E file \in ImageInputs :
       LoadImage(file) /\ result' = Outcome("loadImage", LoadImageError(file))
  /\ Charge
  /\ OtherCall

CallClearImage ==
  /\ used < MaxActions
  /\ ClearImage
  /\ result' = Outcome("clearImage", "none")
  /\ Charge
  /\ OtherCall

ImageNext ==
  \/ CallLoadImage
  \/ CallClearImage
  \/ TryCreateLayer
  \/ TryDeleteLayer
  \/ TryErase
  \/ StrokeTimeout
  \/ TryUndo
  \/ TryRedo

SpecImage == Init /\ [][ImageNext]_vars

(***************************************************************************)
(* The first-mask scenario: an image is loaded and the user draws, with    *)
(* the brush or the outline tool, before or after creating a layer         *)
(***************************************************************************)
FirstMaskNext ==
  \/ CallLoadImage
  \/ TryCreateLayer
  \/ TryStartDrawing
  \/ PointerUp
  \/ PlaceOutlinePoint
  \/ TryCloseOutline
  \/ TryUndo

SpecFirstMask == Init /\ [][FirstMaskNext]_vars

(***************************************************************************)
(* The ordering scenario: a stack of layers built up, then moved up, down, *)
(* to the top and to the bottom                                            *)
(***************************************************************************)
StackLayer ==
  /\ Len(layers) < MaxStack
  /\ CreateLayer
  /\ result' = Outcome("createLayer", CreateError)
  /\ Free
  /\ OtherCall

TryMoveToTop ==
  /\ used < MaxActions
  /\ \E id \in IdInputs :
       MoveToTop(id) /\ result' = Outcome("moveToTop", LayerOpError(id))
  /\ Charge
  /\ OtherCall

TryMoveToBottom ==
  /\ used < MaxActions
  /\ \E id \in IdInputs :
       MoveToBottom(id) /\ result' = Outcome("moveToBottom", LayerOpError(id))
  /\ Charge
  /\ OtherCall

OrderNext ==
  \/ StackLayer
  \/ TryMoveUp
  \/ TryMoveDown
  \/ TryMoveToTop
  \/ TryMoveToBottom

SpecOrder == Init /\ [][OrderNext]_vars

(***************************************************************************)
(* Painting on a stack of layers, one tool at a time and always with a     *)
(* layer to paint on: strokes, erase, a closed outline and a stamped       *)
(* segmentation result, with layers added and chosen in between            *)
(***************************************************************************)
\* no tool has an operation in progress
Idle == outline = <<>> /\ inflight = {} /\ ~isDrawing

BuildStack == Idle /\ StackLayer

ChooseLayer ==
  /\ Idle
  /\ used < MaxPaints
  /\ \E id \in LayerIds(layers) :
       /\ SetActiveLayer(id)
       /\ result' = Outcome("setActiveLayer", LayerOpError(id))
  /\ Charge
  /\ OtherCall

PaintStroke ==
  used < MaxPaints /\ Idle /\ HasActiveLayer /\ TryStartDrawing

PaintErase ==
  used < MaxPaints /\ Idle /\ HasActiveLayer /\ TryErase

PaintOutlinePoint ==
  /\ used < MaxPaints
  /\ inflight = {}
  /\ ~isDrawing
  /\ HasActiveLayer
  /\ ~CanClose(outline)
  /\ PlaceOutlinePoint

PaintCloseOutline ==
  used < MaxPaints /\ CanClose(outline) /\ TryCloseOutline

PaintMagneticBrush ==
  used < MaxPaints /\ Idle /\ HasActiveLayer /\ TryMagneticBrush

PaintNext ==
  \/ BuildStack
  \/ ChooseLayer
  \/ PaintStroke
  \/ PointerUp
  \/ PaintErase
  \/ PaintOutlinePoint
  \/ PaintCloseOutline
  \/ PaintMagneticBrush
  \/ StampResult

SpecPaint == Init /\ [][PaintNext]_vars

(***************************************************************************)
(* The zoom scenario: zoom by factors in and out of range, the debounce    *)
(* timer, undo and redo                                                    *)
(***************************************************************************)
TryZoom ==
  /\ used < MaxActions
  /\ \E factor \in ZoomInputs : Zoom(factor)
  /\ result' = Outcome("zoomBy", "none")
  /\ Charge
  /\ OtherCall

ZoomNext ==
  \/ TryZoom
  \/ ViewportTimeout
  \/ TryUndo
  \/ TryRedo

SpecZoom == Init /\ [][ZoomNext]_vars

(***************************************************************************)
(* The viewport scenario: every viewport operation of the facade, with     *)
(* values in and out of range, the debounce timer, undo and redo           *)
(***************************************************************************)
TrySetZoom ==
  /\ used < MaxActions
  /\ \E zoom \in SetZoomInputs : SetZoom(zoom)
  /\ result' = Outcome("setZoom", "none")
  /\ Charge
  /\ OtherCall

TryResetViewport ==
  /\ used < MaxActions
  /\ ResetViewport
  /\ result' = Outcome("resetViewport", "none")
  /\ Charge
  /\ OtherCall

TryFitToScreen ==
  /\ used < MaxActions
  /\ \E canvasWidth \in CanvasWidths, viewportWidth \in ViewportWidths :
       FitToScreen(canvasWidth, viewportWidth)
  /\ result' = Outcome("fitToScreen", "none")
  /\ Charge
  /\ OtherCall

TryPan ==
  /\ used < MaxActions
  /\ \E delta \in PanDeltas : Pan(delta)
  /\ result' = Outcome("panViewport", "none")
  /\ Charge
  /\ OtherCall

ViewNext ==
  \/ TryZoom
  \/ TrySetZoom
  \/ TryResetViewport
  \/ TryFitToScreen
  \/ TryPan
  \/ ViewportTimeout
  \/ TryUndo
  \/ TryRedo

SpecView == Init /\ [][ViewNext]_vars

(***************************************************************************)
(* The rendering scenario: layers stacked and painted, hidden and shown,   *)
(* and reordered                                                           *)
(***************************************************************************)
TrySetVisibility ==
  /\ used < MaxActions
  /\ \E id \in IdInputs : \E visible \in BOOLEAN :
       /\ SetVisibility(id, visible)
       /\ result' = Outcome("setLayerVisibility", LayerOpError(id))
  /\ Charge
  /\ OtherCall

RenderNext ==
  \/ BuildStack
  \/ PaintStroke
  \/ PointerUp
  \/ TrySetVisibility
  \/ TryMoveToTop

SpecRender == Init /\ [][RenderNext]_vars

(***************************************************************************)
(* The visibility scenario: layers stacked, shown and hidden one by one,   *)
(* reordered and undone                                                    *)
(***************************************************************************)
VisibilityNext ==
  \/ StackLayer
  \/ TrySetVisibility
  \/ TryMoveToTop
  \/ TryUndo

SpecVisibility == Init /\ [][VisibilityNext]_vars

(***************************************************************************)
(* The export scenario: layers stacked, painted and hidden, and the store  *)
(* exported at any point, before the first layer too                       *)
(***************************************************************************)
TryExport ==
  /\ Export
  /\ result' = Exported
  /\ Free
  /\ OtherCall

ExportNext ==
  \/ BuildStack
  \/ PaintStroke
  \/ PointerUp
  \/ TrySetVisibility
  \/ TryExport

SpecExport == Init /\ [][ExportNext]_vars

(***************************************************************************)
(* The recording scenario: strokes that may never see their pointer-up and *)
(* viewport changes, among tool switches, changes of the active layer,     *)
(* layer deletions and undo; the debounce timers fire when their time has  *)
(* passed                                                                  *)
(***************************************************************************)
LiveNext ==
  \/ CallCreateLayer
  \/ CallDeleteLayer
  \/ CallSetActiveLayer
  \/ CallSetActiveTool
  \/ PointerDown
  \/ PointerMove
  \/ PointerUp
  \/ StrokeTimeout
  \/ ViewportTimeout
  \/ CallZoom
  \/ CallUndo

SpecLive ==
  /\ Init
  /\ [][LiveNext]_vars
  /\ WF_vars(StrokeTimeout)
  /\ WF_vars(ViewportTimeout)

(***************************************************************************)
(* Properties                                                              *)
(***************************************************************************)

\* C1: in every reachable state the zIndex values of the N layers in the
\* store are exactly 0..N-1, with no duplicates and no gaps.
C1_ZIndexDense ==
  /\ ZIndexSet(layers) = 0..(Len(layers) - 1)
  /\ \A i, j \in 1..Len(layers) : i # j => layers[i].zIndex # layers[j].zIndex

\* a delete that removed the bottom layer and renumbered the one above it
C1_Witness ==
  /\ history.present.actionType = "LAYER_DELETE"
  /\ layers = history.present.layers
  /\ Len(layers) = 1
  /\ layers[1].id = 2
  /\ layers[1].zIndex = 0

\* C2: past never holds more than HISTORY_LIMIT entries; a push on a full
\* past drops the oldest entry and keeps the others in order followed by the
\* old present; after a run of recorded actions the undos that succeed are
\* exactly min(actions, HISTORY_LIMIT) and then nothing is left to undo.
C2_HistoryBounded ==
  /\ [](Len(history.past) <= HISTORY_LIMIT)
  /\ [][(ScriptAction /\ Len(history.past) = HISTORY_LIMIT)
          => history'.past = Append(Tail(history.past), history.present)]_vars
  /\ [](Len(history.past) + Len(history.future) = Min2(used, HISTORY_LIMIT))

\* 51 recorded actions, 50 successful undos, and nothing left to undo
C2_Witness ==
  /\ used = HISTORY_LIMIT + 1
  /\ Len(history.future) = HISTORY_LIMIT
  /\ ~CanUndo(history)

C5_RedoInvertsUndo ==
  /\ CanUndo(history) => AfterRedo(AfterUndo(Live)) = Live
  /\ CanRedo(history) => AfterUndo(AfterRedo(Live)) = Live

\* C6: history.present equals the live layers and viewport in every
\* reachable state.
C6_PresentIsLive ==
  /\ history.present.layers = layers
  /\ history.present.viewport = viewport

\* C7: a freehand stroke from pointer down to pointer up, with nothing but
\* its own pointer events and its inactivity timer in between, contributes
\* exactly one history entry.
C7_OneEntryPerStroke ==
  (~isDrawing /\ strokeEntries # Interrupted) => strokeEntries = 1

\* C8: a result that arrives for a request made stale by a newer request or
\* a tool switch changes no layer and pushes no history entry; a result that
\* is applied belongs to the latest issued request.
C8_StaleDiscarded ==
  /\ [][\A r \in inflight : (r \notin inflight' /\ r.token \in stale)
          => layers' = layers /\ history' = history /\ applied' = applied]_vars
  /\ [][applied' # applied => Last(applied').token = nextToken - 1]_vars

\* the only request was made stale by a tool switch and its result, when
\* it arrived, was discarded
C8_Witness ==
  /\ discarded = {1}
  /\ nextToken = 2
  /\ inflight = {}
  /\ applied = <<>>
  /\ activeTool # "MAGNETIC_BRUSH"

\* C9: results applied to the same layer are applied in request order.
C9_InRequestOrder ==
  \A i, j \in 1..Len(applied) :
    (i < j /\ applied[i].layer = applied[j].layer)
      => applied[i].token < applied[j].token

\* two results applied to one layer, one request after the other
C9_Witness ==
  /\ Len(applied) = 2
  /\ applied[1].layer = applied[2].layer

\* C10: activeLayerId is empty or the id of a layer in the store.
C10_ActiveLayerExists ==
  activeLayerId = NoLayer \/ activeLayerId \in LayerIds(layers)

\* the layer a delete step removed
C11_Deleted == CHOOSE id \in LayerIds(layers) : id \notin LayerIds(layers')

\* a delete step removes exactly one layer, keeps the others with their
\* masks in their order, and renumbers them 0..N-1
C11_DeleteRenumbers ==
  /\ Len(layers') = Len(layers) - 1
  /\ LayerIds(layers') = LayerIds(layers) \ {C11_Deleted}
  /\ \A k \in 1..Len(layers') :
       /\ layers'[k].zIndex = k - 1
       /\ layers'[k].mask = layers[IndexOf(layers, layers'[k].id)].mask
  /\ \A j, k \in 1..Len(layers') :
       j < k => IndexOf(layers, layers'[j].id) < IndexOf(layers, layers'[k].id)

\* C11: delete(id) removes exactly that layer and renumbers the remaining
\* layers 0..N-1 in their order; if the deleted layer was the active one,
\* the active layer becomes the layer now at the deleted layer's former
\* z-index, or none if the store is empty.
C11_DeleteActivatesNext ==
  [][(Len(layers') < Len(layers) /\ CallDeleteLayer)
       => /\ C11_DeleteRenumbers
          /\ activeLayerId = C11_Deleted
               => LET z == layers[IndexOf(layers, C11_Deleted)].zIndex
                  IN IF layers' = <<>> THEN activeLayerId' = NoLayer
                     ELSE \E k \in 1..Len(layers') :
                            /\ layers'[k].zIndex = z
                            /\ activeLayerId' = layers'[k].id]_vars

\* C11 (amended): delete(id) removes exactly that layer and renumbers the
\* remaining layers 0..N-1 in their order; if the deleted layer was the
\* active one, the active layer becomes the layer just below the deleted
\* one, or none if the deleted layer was the bottom one; otherwise the
\* active layer stays.
C11_DeleteActivatesPrevious ==
  [][(Len(layers') < Len(layers) /\ CallDeleteLayer)
       => /\ C11_DeleteRenumbers
          /\ LET z == layers[IndexOf(layers, C11_Deleted)].zIndex
             IN activeLayerId' =
                  IF activeLayerId # C11_Deleted THEN activeLayerId
                  ELSE IF z = 0 THEN NoLayer
                  ELSE layers[CHOOSE k \in 1..Len(layers) :
                                layers[k].zIndex = z - 1].id]_vars

\* the active top layer of two was deleted and the layer below is active
C11_Witness ==
  /\ history.present.actionType = "LAYER_DELETE"
  /\ Len(history.past) = 3
  /\ LayerIds(layers) = {1}
  /\ LayerIds(Last(history.past).layers) = {1, 2}
  /\ activeLayerId = 1

\* C12: create gives the new layer the z-index equal to the number of
\* layers before the call; with MAX_LAYERS layers in the store create fails
\* with a layer error and layers, active layer and history stay as they
\* were; the store never holds more than MAX_LAYERS layers.
C12_CreateBounded ==
  /\ [](Len(layers) <= MAX_LAYERS)
  /\ [][FillStore =>
          IF Len(layers) < MAX_LAYERS
          THEN /\ result'.error = "none"
               /\ Len(layers') = Len(layers) + 1
               /\ SubSeq(layers', 1, Len(layers)) = layers
               /\ Last(layers').zIndex = Len(layers)
          ELSE /\ result'.error = "LayerError"
               /\ Len(layers') = MAX_LAYERS
               /\ UNCHANGED <<layers, activeLayerId, history>>]_vars

\* a create was refused on a full store
C12_Witness ==
  /\ result = Outcome("createLayer", "LayerError")
  /\ Len(layers) = MAX_LAYERS
  /\ layers[MAX_LAYERS].zIndex = MAX_LAYERS - 1
  /\ ~CanRedo(history)

\* the call was refused with a layer error and changed nothing
C13_Rejected ==
  /\ result'.error = "LayerError"
  /\ UNCHANGED <<layers, activeLayerId, viewport, history>>

C14_Refused ==
  /\ result'.error = "ToolError"
  /\ UNCHANGED <<layers, history>>

C15_ActiveMask(ls) == ls[IndexOf(ls, activeLayerId)].mask

\* the lowest and the highest point of the open outline
C15_Span ==
  LET ps == {outline[i] : i \in 1..Len(outline)}
  IN <<CHOOSE a \in ps : \A p \in ps : a <= p,
       CHOOSE b \in ps : \A p \in ps : p <= b>>

\* C15: addOutlinePoint never changes a mask; closeOutline with fewer than
\* three points fails with a tool error and leaves masks, history and the
\* points placed so far as they were; closeOutline with three or more
\* points and an active layer commits the filled polygon: full alpha
\* inside the polygon's bounding box, the rest of the mask untouched, the
\* bounds of a mask that was empty equal to that bounding box, one entry
\* pushed.
C15_OutlineClose ==
  /\ [][PlaceOutlinePoint
          => /\ UNCHANGED <<layers, history>>
             /\ Len(outline') = Len(outline) + 1
             /\ SubSeq(outline', 1, Len(outline)) = outline]_vars
  /\ [][(Len(outline) < 3 /\ TryCloseOutline)
          => /\ result'.error = "ToolError"
             /\ UNCHANGED <<layers, history, outline>>]_vars
  /\ [][(Len(outline) >= 3 /\ HasActiveLayer /\ TryCloseOutline)
          => LET before == C15_ActiveMask(layers)
                 after == C15_ActiveMask(layers')
             IN /\ result'.error = "none"
                /\ \A p \in Pixels :
                     after[p] = IF C15_Span[1] <= p /\ p <= C15_Span[2]
                                THEN FullAlpha ELSE before[p]
                /\ before = EmptyMask => MaskBounds(after) = C15_Span
                /\ history'.present.layers = layers'
                /\ Last(history'.past).layers = layers]_vars

\* a close was refused for an outline of two points on a layer that is
\* still empty, and the two points are still there
C15_Witness ==
  /\ result = Outcome("closeOutline", "ToolError")
  /\ Len(outline) = 2
  /\ HasActiveLayer
  /\ C15_ActiveMask(layers) = EmptyMask

C17_ViewportDebounced ==
  /\ [][(pending \in {"NONE", "VIEWPORT_CHANGE"} /\ (CallZoom \/ CallPan))
          => /\ history' = history
             /\ pending' = "VIEWPORT_CHANGE"]_vars
  /\ [][ViewportTimeout
          => /\ history'.past = Append(history.past, history.present)
             /\ history'.present = Entry(layers, viewport, "VIEWPORT_CHANGE")
             /\ viewport' = viewport
             /\ pending' = "NONE"]_vars
  /\ [](pending = "NONE" => ~ENABLED ViewportTimeout)

\* a zoom and two pans, then the debounce time: one entry for the three
C17_Witness ==
  /\ history.present.actionType = "VIEWPORT_CHANGE"
  /\ Len(history.past) = 1
  /\ pending = "NONE"
  /\ history.present.viewport = viewport
  /\ viewport.zoom = 400
  /\ viewport.pan = 2

\* the action type of the entry a discrete call pushes
C18_ActionType(call) ==
  CASE call = "createLayer" -> "LAYER_ADD"
    [] call = "deleteLayer" -> "LAYER_DELETE"
    [] call \in {"moveUp", "moveDown"} -> "LAYER_REORDER"
    [] call = "renameLayer" -> "LAYER_RENAME"
    [] call = "setLayerColor" -> "LAYER_COLOR"
    [] call = "applySegmentation" -> "DRAW"

\* a step in which a discrete action took effect
C18_DiscreteStep ==
  \/ (TryCreateLayer \/ TryDeleteLayer \/ TryRename \/ TrySetColor)
       /\ result'.error = "none"
  \/ (TryMoveUp \/ TryMoveDown) /\ layers' # layers
  \/ StampResult /\ applied' # applied

\* C18: each discrete action (layer add, delete, reorder, rename, colour
\* change, applied segmentation result) pushes exactly one entry of its own
\* in the step of the call: the new present holds the new layers under the
\* action's type, the entry before it is the state the action found (the
\* old present, or the entry of a debounced change that was pending, pushed
\* just ahead), and nothing is left pending, so that a second discrete
\* action adds a second entry.
C18_DiscretePushesOne ==
  [][C18_DiscreteStep
       => /\ history'.present =
               Entry(layers', viewport, C18_ActionType(result'.call))
          /\ history'.future = <<>>
          /\ pending' = "NONE"
          /\ IF pending = "NONE"
             THEN history'.past = Append(history.past, history.present)
             ELSE history'.past =
                    history.past \o
                      <<history.present, Entry(layers, viewport, pending)>>]_vars

\* two discrete actions one after the other, two entries
C18_Witness ==
  /\ Len(history.past) = 2
  /\ history.past[2].actionType = "LAYER_ADD"
  /\ history.present.actionType = "LAYER_RENAME"
  /\ layers = history.present.layers
  /\ pending = "NONE"

\* the part of the engine that undo and redo may change
C19_Kept ==
  /\ history' = history
  /\ layers' = layers
  /\ viewport' = viewport

C20_NoImageNoLayers == image = NoImage => layers = <<>>

\* the layers other than id keep every field
C21_OthersKeep(id, shift(_)) ==
  \A o \in LayerIds(layers) \ {id} :
    layers'[IndexOf(layers', o)] =
      [layers[IndexOf(layers, o)] EXCEPT !.zIndex = shift(@)]

\* C21: moveToTop on a layer at zIndex k among N layers gives it zIndex N-1
\* and lowers by one the zIndex of every layer that was above it, leaving
\* the layers below it as they were; moveToBottom gives it zIndex 0 and
\* raises by one every layer that was below it; the other layers keep their
\* relative order.
C21_MoveToEnds ==
  /\ [][\A id \in LayerIds(layers) :
          ( /\ result' = Outcome("moveToTop", "none")
            /\ MoveToTop(id) )
          => LET k == ZIndexOf(layers, id)
                 down(z) == IF z > k THEN z - 1 ELSE z
             IN /\ LayerIds(layers') = LayerIds(layers)
                /\ ZIndexOf(layers', id) = Len(layers) - 1
                /\ C21_OthersKeep(id, down)]_vars
  /\ [][\A id \in LayerIds(layers) :
          ( /\ result' = Outcome("moveToBottom", "none")
            /\ MoveToBottom(id) )
          => LET k == ZIndexOf(layers, id)
                 up(z) == IF z < k THEN z + 1 ELSE z
             IN /\ LayerIds(layers') = LayerIds(layers)
                /\ ZIndexOf(layers', id) = 0
                /\ C21_OthersKeep(id, up)]_vars

\* three layers, the one created first moved from the bottom to the top
C21_Witness ==
  /\ result = Outcome("moveToTop", "none")
  /\ Len(layers) = 3
  /\ ZIndexOf(layers, 1) = 2
  /\ ZIndexOf(layers, 2) = 0
  /\ ZIndexOf(layers, 3) = 1
  /\ Len(history.past) = 4

\* C22: moveUp swaps the layer's zIndex with that of the layer right above
\* it and moveDown with that of the layer right below it, every other
\* layer's zIndex staying as it was; moveUp on the top layer and moveDown
\* on the bottom layer raise no error and change nothing.
C22_MoveSwaps ==
  /\ [][\A id \in LayerIds(layers) :
          ( /\ result'.call = "moveUp"
            /\ MoveUp(id)
            /\ result' = Outcome("moveUp", LayerOpError(id)) )
          => LET k == ZIndexOf(layers, id)
                 swap(z) == IF z = k + 1 THEN k ELSE z
             IN /\ result'.error = "none"
                /\ IF k = Len(layers) - 1
                   THEN layers' = layers /\ history' = history
                   ELSE /\ LayerIds(layers') = LayerIds(layers)
                        /\ ZIndexOf(layers', id) = k + 1
                        /\ C21_OthersKeep(id, swap)]_vars
  /\ [][\A id \in LayerIds(layers) :
          ( /\ result'.call = "moveDown"
            /\ MoveDown(id)
            /\ result' = Outcome("moveDown", LayerOpError(id)) )
          => LET k == ZIndexOf(layers, id)
                 swap(z) == IF z = k - 1 THEN k ELSE z
             IN /\ result'.error = "none"
                /\ IF k = 0
                   THEN layers' = layers /\ history' = history
                   ELSE /\ LayerIds(layers') = LayerIds(layers)
                        /\ ZIndexOf(layers', id) = k - 1
                        /\ C21_OthersKeep(id, swap)]_vars

\* the bottom layer of three moved up once: it swapped with the middle one
C22_Witness ==
  /\ result = Outcome("moveUp", "none")
  /\ Len(layers) = 3
  /\ ZIndexOf(layers, 1) = 1
  /\ ZIndexOf(layers, 2) = 0
  /\ ZIndexOf(layers, 3) = 2
  /\ history.present.actionType = "LAYER_REORDER"
  /\ Len(history.past) = 4
  /\ used = 1

\* a step of one of the mask-writing operations
C23_PaintStep ==
  /\ result'.call \in {"startDrawing", "continueDrawing", "erase",
                       "closeOutline", "applySegmentation"}
  /\ \/ TryStartDrawing
     \/ TryContinueDrawing
     \/ TryErase
     \/ TryCloseOutline
     \/ StampResult

\* C23: brush, eraser, outline close and segmentation stamp change only
\* the mask buffer of the active layer: every other layer, mask and bounds
\* included, and every layer's id, name, colour, opacity, visibility and
\* zIndex are as before.
C23_OnlyActiveMask ==
  [][C23_PaintStep
       => /\ Len(layers') = Len(layers)
          /\ \A i \in 1..Len(layers) :
               /\ layers'[i] = [layers[i] EXCEPT !.mask = layers'[i].mask]
               /\ layers[i].id # activeLayerId
                    => /\ layers'[i] = layers[i]
                       /\ MaskBounds(layers'[i].mask)
                            = MaskBounds(layers[i].mask)]_vars

\* a layer that is not the active one holds paint, and the active layer
\* has just been painted on
C23_Witness ==
  /\ result.call \in {"startDrawing", "erase", "closeOutline",
                      "applySegmentation"}
  /\ result.error = "none"
  /\ \E i, j \in 1..Len(layers) :
       /\ layers[i].id = activeLayerId
       /\ layers[j].id # activeLayerId
       /\ MaskBounds(layers[i].mask) # <<>>
       /\ MaskBounds(layers[j].mask) # <<>>

\* the mask of the active layer
C24_ActiveMask(ls) == ls[IndexOf(ls, activeLayerId)].mask

C25_InRange(vp) == vp.zoom >= MIN_ZOOM /\ vp.zoom <= MAX_ZOOM

\* C25: after any sequence of zoomBy calls with any factors viewport.zoom
\* lies within [MIN_ZOOM, MAX_ZOOM]: each call sets it to the current zoom
\* times the factor, clamped to that range, so that zooming in saturates
\* at the maximum and zooming out at the minimum.
C25_ZoomClamped ==
  /\ [](C25_InRange(viewport))
  /\ [][\A factor \in ZoomInputs :
          ( /\ result' = Outcome("zoomBy", "none")
            /\ Zoom(factor) )
          => LET product == (viewport.zoom * factor) \div 100
             IN /\ product > MAX_ZOOM => viewport'.zoom = MAX_ZOOM
                /\ product < MIN_ZOOM => viewport'.zoom = MIN_ZOOM
                /\ C25_InRange([zoom |-> product])
                     => viewport'.zoom = product
                /\ viewport'.pan = viewport.pan]_vars

\* a zoom far in that stopped at the maximum, recorded, and then a zoom
\* far out that stopped at the minimum
C25_Witness ==
  /\ result = Outcome("zoomBy", "none")
  /\ viewport.zoom = MIN_ZOOM
  /\ history.present.viewport.zoom = MAX_ZOOM
  /\ pending = "VIEWPORT_CHANGE"

\* the visible layers with paint on pixel p
C26_Showing(p) ==
  {i \in 1..Len(layers) : layers[i].visible /\ layers[i].mask[p] > 0}

\* C26: renderComposite draws the visible layers and no others, each once,
\* in strictly ascending zIndex order over the base image: on every pixel
\* the paint of the visible layer with the highest zIndex shows, the base
\* image where there is none, and a hidden layer changes nothing in the
\* result; this holds after any reorder.
C26_VisibleAscending ==
  LET order == DrawOrder(layers)
      picture == RenderComposite(layers)
  IN /\ {order[k].id : k \in 1..Len(order)}
          = {layers[i].id : i \in {j \in 1..Len(layers) : layers[j].visible}}
     /\ \A k \in 1..(Len(order) - 1) : order[k].zIndex < order[k + 1].zIndex
     /\ \A p \in Pixels :
          IF C26_Showing(p) = {} THEN picture[p] = BaseImage
          ELSE \E i \in C26_Showing(p) :
                 /\ picture[p] = layers[i].id
                 /\ \A j \in C26_Showing(p) :
                      layers[j].zIndex <= layers[i].zIndex
     /\ \A i \in 1..Len(layers) :
          ~layers[i].visible
            => RenderComposite(RemoveLayer(layers, layers[i].id)) = picture

\* two layers painted on the same pixel: the upper one hidden, or moved
\* under the other, and the lower one's paint shows
C26_Witness ==
  /\ Len(layers) = 2
  /\ \E p \in Pixels :
       /\ layers[1].mask[p] > 0
       /\ layers[2].mask[p] > 0
       /\ RenderComposite(layers)[p] = 1
       /\ \/ ~layers[2].visible
          \/ layers[2].id = 1

C28_BadImageRejected ==
  [][\A file \in ImageInputs :
       ( /\ result' = Outcome("loadImage", LoadImageError(file))
         /\ LoadImage(file) )
       => IF file.fileSize > 20971520
             \/ file.format \notin {"png", "jpg", "webp"}
          THEN /\ result'.error = "ImageLoadError"
               /\ image' = image
               /\ layers' = layers
               /\ history' = history
               /\ engine' = engine
          ELSE /\ result'.error = "none"
               /\ image' = file.id]_vars

\* an image is loaded and a layer created on it, and then a file that is
\* too large or of another format was refused
C28_Witness ==
  /\ result = Outcome("loadImage", "ImageLoadError")
  /\ image # NoImage
  /\ layers # <<>>
  /\ history.present.actionType = "LAYER_ADD"

\* C29: history entries are immutable.  In every step the entries recorded
\* in past and future keep the layer set and the mask contents they were
\* pushed with: undo and redo only move the position of present within one
\* unchanged sequence of entries, a push puts the old present, untouched,
\* on past ahead of the entries it adds (dropping only the oldest entries
\* of a full past, and the undone branch), and a write to the live layers
\* leaves the history as it is.
C29_Timeline(h) == h.past \o <<h.present>> \o h.future

C29_Recorded(h) == h.past \o <<h.present>>

C29_Pushed(h, g) ==
  LET old == C29_Recorded(h)
      new == C29_Recorded(g)
  IN /\ g.future = <<>>
     /\ \E k \in 0..2, n \in 1..2 :
          /\ k < Len(old)
          /\ k > 0 => Len(g.past) = HISTORY_LIMIT
          /\ Len(new) = Len(old) - k + n
          /\ SubSeq(new, 1, Len(old) - k) = SubSeq(old, k + 1, Len(old))

C29_EntriesImmutable ==
  [][\/ history' = history
     \/ /\ Len(history'.past) # Len(history.past)
        /\ C29_Timeline(history') = C29_Timeline(history)
     \/ C29_Pushed(history, history')]_vars

\* a layer was added and recorded, then painted and the stroke recorded:
\* the older entry, now on past, still shows the layer with its empty mask,
\* the present shows it painted
C29_Witness ==
  /\ history.present.actionType = "DRAW"
  /\ Len(history.past) >= 2
  /\ layers = history.present.layers
  /\ \E i \in 1..Len(layers) :
       /\ Len(Last(history.past).layers) >= i
       /\ Last(history.past).layers[i].id = layers[i].id
       /\ Last(history.past).layers[i].mask # layers[i].mask
       /\ Last(history.past).layers[i].mask = EmptyMask
  /\ \E j \in 1..Len(history.past) :
       history.past[j].actionType = "LAYER_ADD"

\* a step in which an event of a coalesced category took effect: a point
\* of a brush or eraser stroke, or a zoom
C30_Coalesced(cat) ==
  \/ /\ cat \in StrokeCategories
     /\ HasActiveLayer
     /\ activeTool \in DrawTools
     /\ cat = StrokeCategory(activeTool)
     /\ (PointerDown \/ PointerMove)
  \/ /\ cat = "VIEWPORT_CHANGE"
     /\ CallZoom

\* a step in which a discrete action took effect
C30_DiscreteStep ==
  \/ /\ layers' # layers
     /\ \/ CallCreateLayer \/ CallDeleteLayer
        \/ CallMoveUp \/ CallMoveDown \/ CallMoveToTop \/ CallMoveToBottom
  \/ applied' # applied /\ ProviderResolves

\* C30: a pending coalesced entry (stroke or viewport change waiting for its
\* debounce) is flushed in the very step in which an event of another
\* category arrives: the entry, holding the live state the event found
\* under the pending category, is pushed before anything the event records
\* (a discrete action's own entry comes right after it, a coalesced event
\* starts waiting in its turn), so that entries stand in past in the order
\* in which the actions began; an event of the pending category pushes
\* nothing and leaves the entry pending.
C30_FlushedInOrder ==
  /\ [][\A cat \in StrokeCategories \cup {"VIEWPORT_CHANGE"} :
          (pending \notin {"NONE", cat} /\ C30_Coalesced(cat))
            => /\ history'.past = Append(history.past, history.present)
               /\ history'.present = Entry(layers, viewport, pending)
               /\ history'.future = <<>>
               /\ pending' = cat]_vars
  /\ [][(pending # "NONE" /\ C30_DiscreteStep)
          => /\ history'.past =
                  history.past \o
                    <<history.present, Entry(layers, viewport, pending)>>
             /\ history'.present.layers = layers'
             /\ history'.future = <<>>
             /\ pending' = "NONE"]_vars
  /\ [][\A cat \in StrokeCategories \cup {"VIEWPORT_CHANGE"} :
          (pending = cat /\ C30_Coalesced(cat))
            => /\ history' = history
               /\ pending' = cat]_vars

\* a stroke on a new layer was still being drawn when a zoom arrived: the
\* stroke's entry is the present, the zoom waits behind it
C30_Witness ==
  /\ isDrawing
  /\ pending = "VIEWPORT_CHANGE"
  /\ history.present.actionType = "DRAW"
  /\ history.present.layers = layers
  /\ history.present.viewport # viewport
  /\ Len(history.past) = 2
  /\ history.past[2].actionType = "LAYER_ADD"

\* C31: a segmentation result is only ever stamped into the layer that was
\* active when its request was issued: whenever the result of a request is
\* applied, the layer it is written to is the one the request was issued
\* for, and that layer is still in the store.
C31_StampedWhereIssued ==
  [][\A r \in inflight :
       ( /\ applied' # applied
         /\ r \notin inflight'
         /\ Last(applied').token = r.token )
       => /\ Last(applied').layer = r.layer
          /\ r.layer \in LayerIds(layers)]_vars

\* the mask contents of a layer list, layer by layer
C32_Masks(ls) == [i \in 1..Len(ls) |-> [id |-> ls[i].id, mask |-> ls[i].mask]]

\* the live masks and viewport are those of the newest history entry
C32_Covered ==
  /\ C32_Masks(layers) = C32_Masks(history.present.layers)
  /\ viewport = history.present.viewport

C33_ZoomAlwaysInRange ==
  /\ viewport.zoom \in MIN_ZOOM..MAX_ZOOM
  /\ \A i \in 1..Len(history.past) :
       history.past[i].viewport.zoom \in MIN_ZOOM..MAX_ZOOM
  /\ history.present.viewport.zoom \in MIN_ZOOM..MAX_ZOOM
  /\ \A i \in 1..Len(history.future) :
       history.future[i].viewport.zoom \in MIN_ZOOM..MAX_ZOOM

\* C34: with an image loaded and no layer yet, a brush stroke, and likewise
\* closing an outline of three or more points, creates a new layer named
\* "Layer 1" which receives the drawn mask.
C34_DrawingCreatesLayer ==
  [][( /\ image # NoImage
       /\ layers = <<>>
       /\ \/ /\ activeTool = "BRUSH"
             /\ result' = Outcome("startDrawing", DrawError)
             /\ TryStartDrawing
          \/ /\ Len(outline) >= MIN_POLYGON_POINTS
             /\ result' = Outcome("closeOutline", CloseOutlineError)
             /\ TryCloseOutline )
     => /\ Len(layers') = 1
        /\ layers'[1].name = "Layer 1"
        /\ layers'[1].mask # EmptyMask]_vars

AlphaInputs == {0, FullAlpha}

\* a call on the buffer touches nothing of the engine
OnlyBuffer ==
  UNCHANGED <<layers, activeLayerId, activeTool, viewport, history,
              isDrawing, lastPoint, pending, segToken, inflight,
              nextId, nextToken, applied, discarded, stale, image, outline,
              compositor, transform>>

WriteBufferAlpha(point, value) ==
  buffer' = BufferWrite(buffer, point, value) /\ OnlyBuffer

StampRegion(on, region) ==
  buffer' = BufferStamp(buffer, on, region) /\ OnlyBuffer

ClearBuffer == buffer' = BufferClear(buffer) /\ OnlyBuffer

ReadAlpha(point) == UNCHANGED buffer /\ OnlyBuffer

Written(call, region) == [call |-> call, region |-> region]

TryWriteAlpha ==
  /\ used < MaxActions
  /\ \E point \in PointInputs : \E value \in AlphaInputs :
       /\ WriteBufferAlpha(point, value)
       /\ result' = Written("writeAlpha", {ClampPoint(point)})
  /\ Charge
  /\ OtherCall

TryStampRegion ==
  /\ used < MaxActions
  /\ \E region \in StampRegions : \E on \in SUBSET region :
       /\ StampRegion(on, region)
       /\ result' = Written("stampRegion", ClampRegion(region))
  /\ Charge
  /\ OtherCall

TryClearBuffer ==
  /\ used < MaxActions
  /\ ClearBuffer
  /\ result' = Outcome("clear", "none")
  /\ Charge
  /\ OtherCall

TryReadAlpha ==
  /\ \E point \in PointInputs :
       /\ ReadAlpha(point)
       /\ result' = [call |-> "readAlpha", point |-> point,
                     value |-> BufferRead(buffer, point)]
  /\ Free
  /\ OtherCall

BufferNext ==
  \/ TryWriteAlpha
  \/ TryStampRegion
  \/ TryClearBuffer
  \/ TryReadAlpha

SpecBuffer == Init /\ [][BufferNext]_vars

\* C36: the tracked box lies within the canvas; a read answers 0 outside the
\* box and that is the alpha there, so no paint lies outside it; each
\* writeAlpha, erasing included, and each stampRegion makes the box the
\* minimal one that holds the old box and what was written, after clamping
\* to the canvas; the box loses a pixel only by clear; a read changes
\* nothing.
C36_BoundsGrowOnly ==
  /\ [](/\ BoxPixels(buffer.bounds) \subseteq Pixels
        /\ buffer.bounds # NoBounds => buffer.bounds[1] <= buffer.bounds[2]
        /\ \A p \in Pixels : BufferRead(buffer, p) = buffer.mask[p]
        /\ \A p \in PointInputs \ Pixels : BufferRead(buffer, p) = 0)
  /\ [][/\ result'.call \in {"writeAlpha", "stampRegion"}
           => /\ result'.region \subseteq Pixels
              /\ BoxPixels(buffer.bounds) \cup result'.region
                   \subseteq BoxPixels(buffer'.bounds)
              /\ \A lo \in Pixels : \A hi \in Pixels :
                   BoxPixels(buffer.bounds) \cup result'.region \subseteq lo..hi
                     => BoxPixels(buffer'.bounds) \subseteq lo..hi
        /\ ~(BoxPixels(buffer.bounds) \subseteq BoxPixels(buffer'.bounds))
           => result'.call = "clear"
        /\ result'.call = "readAlpha" => buffer' = buffer]_vars

\* alpha written past the right edge landed on the last pixel and was erased
\* there, the first pixel was erased too, and the box still spans the canvas
C36_Witness ==
  /\ result = Written("writeAlpha", {1})
  /\ buffer.mask = EmptyMask
  /\ buffer.bounds = <<1, NumPixels>>

(***************************************************************************)
(* The compositing scenario: layers stacked, the active one drawn on and   *)
(* erased from with the touched bounds marked dirty, the viewport zoomed   *)
(* and panned, and composite passes in between                             *)
(***************************************************************************)
DrawRegions == {lo..hi : lo \in Pixels, hi \in Pixels} \ {{}}

\* drawOnLayer and eraseFromLayer: the layer's mask is written and the
\* bounds touched are marked dirty for it
DrawOnLayer(id, region, value) ==
  /\ id \in LayerIds(layers)
  /\ layers' = PaintLayers(layers, id, region, value)
  /\ compositor' = MarkDirty(compositor, id, region)
  /\ UNCHANGED <<activeLayerId, activeTool, viewport, history, isDrawing,
                 lastPoint, pending, segToken, inflight, nextId, nextToken,
                 applied, discarded, stale, image, outline, buffer,
                 transform>>

\* the transform is zoomed or panned: a change invalidates the tracking
MoveViewport(vp) ==
  /\ viewport' = vp
  /\ compositor' = IF vp # viewport THEN InvalidateDirty(compositor)
                   ELSE compositor
  /\ UNCHANGED <<layers, activeLayerId, activeTool, history, isDrawing,
                 lastPoint, pending, segToken, inflight, nextId, nextToken,
                 applied, discarded, stale, image, outline, buffer,
                 transform>>

\* a composite pass over the layers as they are
RenderPass ==
  /\ compositor' = Composite(compositor, layers, viewport)
  /\ UNCHANGED <<layers, activeLayerId, activeTool, viewport, history,
                 isDrawing, lastPoint, pending, segToken, inflight, nextId,
                 nextToken, applied, discarded, stale, image, outline, buffer,
                 transform>>

\* up to MaxPaints layers, drawn on and moved under MaxPaints times
StackFew ==
  /\ Len(layers) < MaxPaints
  /\ CreateLayer
  /\ result' = Outcome("createLayer", CreateError)
  /\ Free
  /\ OtherCall

TryDrawOnLayer ==
  /\ used < MaxPaints
  /\ \E region \in DrawRegions : \E value \in AlphaInputs :
       /\ DrawOnLayer(activeLayerId, region, value)
       /\ result' = Outcome("drawOnLayer", "none")
  /\ Charge
  /\ OtherCall

TryMoveViewport ==
  /\ used < MaxPaints
  /\ \/ \E factor \in ZoomFactors : MoveViewport(ZoomBy(viewport, factor))
     \/ \E delta \in PanDeltas : MoveViewport(PanBy(viewport, delta))
  /\ result' = Outcome("moveViewport", "none")
  /\ Charge
  /\ OtherCall

TryRenderPass ==
  /\ RenderPass
  /\ result' = [call |-> "renderComposite", full |-> compositor.invalid,
                region |-> DirtyUnion(compositor)]
  /\ Free
  /\ OtherCall

CompositeNext ==
  \/ StackFew
  \/ TryDrawOnLayer
  \/ TryMoveViewport
  \/ TryRenderPass

SpecComposite == Init /\ [][CompositeNext]_vars

\* the smallest span of pixels that holds a set of pixels
C37_Hull(set) ==
  {p \in Pixels : (\E a \in set : a <= p) /\ (\E b \in set : p <= b)}

\* C37: marking bounds for a layer makes its dirty rectangle the union of
\* what it was and the bounds marked, and leaves the other layers' alone; a
\* viewport change drops all rectangles and makes a full recomposite due;
\* a composite pass leaves the presentation buffer equal to a full
\* recomposite of the layers and viewport as they are and starts the
\* tracking afresh; between passes the presentation buffer differs from a
\* full recomposite only over the dirty rectangles or while a full
\* recomposite is due.
C37_PartialEqualsFull ==
  /\ [](\A s \in Pixels :
          \/ compositor.invalid
          \/ ToCanvas(viewport, s) \in DirtyUnion(compositor)
          \/ compositor.presented[s] = FullComposite(layers, viewport)[s])
  /\ [][/\ \A id \in LayerIds(layers) : \A region \in DrawRegions :
             \A value \in AlphaInputs :
               ( /\ result' = Outcome("drawOnLayer", "none")
                 /\ DrawOnLayer(id, region, value) )
               => /\ BoxPixels(GetDirtyRegion(compositor', id))
                       = C37_Hull(BoxPixels(GetDirtyRegion(compositor, id))
                                    \cup region)
                  /\ \A other \in LayerIds(layers) \ {id} :
                       GetDirtyRegion(compositor', other)
                         = GetDirtyRegion(compositor, other)
        /\ viewport' # viewport
             => /\ compositor'.invalid
                /\ DirtyUnion(compositor') = {}
        /\ ( /\ result'.call = "renderComposite"
             /\ RenderPass )
             => /\ compositor'.presented = FullComposite(layers', viewport')
                /\ DirtyUnion(compositor') = {}
                /\ ~compositor'.invalid]_vars

\* a pass that composited only a part of the canvas, the dirty rectangle of
\* a stroke, and presents the paint of that stroke
C37_Witness ==
  /\ result.call = "renderComposite"
  /\ ~result.full
  /\ result.region \notin {{}, Pixels}
  /\ \E s \in Pixels : compositor.presented[s] \in LayerIds(layers)
  /\ compositor.presented = FullComposite(layers, viewport)

(***************************************************************************)
(* The anchored zoom scenario: the transform zoomed about screen points on *)
(* and off the canvas, by factors that stay in range and that do not       *)
(***************************************************************************)
ZoomAtPoint(factor, anchor) ==
  /\ transform' = ZoomAt(transform, factor, anchor)
  /\ UNCHANGED <<layers, activeLayerId, activeTool, viewport, history,
                 isDrawing, lastPoint, pending, segToken, inflight, nextId,
                 nextToken, applied, discarded, stale, image, outline, buffer,
                 compositor>>

\* up to MaxPaints zooms, one after the other
TryZoomAt ==
  /\ used < MaxPaints
  /\ \E factor \in ZoomInputs : \E anchor \in PointInputs :
       ZoomAtPoint(factor, anchor)
  /\ result' = Outcome("zoomAt", "none")
  /\ Charge
  /\ OtherCall

TransformNext == TryZoomAt

SpecTransform == Init /\ [][TransformNext]_vars

\* C38: a zoom about an anchor leaves the canvas point under the anchor
\* where it was, whatever the factor, also when the result is clamped at
\* MIN_ZOOM or MAX_ZOOM: the zoom is the clamped product and the pan is the
\* one that maps the anchor to the same canvas point at that zoom.
C38_AnchorFixed ==
  [][\A factor \in ZoomInputs : \A anchor \in PointInputs :
       ( /\ result' = Outcome("zoomAt", "none")
         /\ ZoomAtPoint(factor, anchor) )
       => /\ transform'.zoom = ClampZoom((transform.zoom * factor) \div 100)
          /\ ToCanvasExact(transform', anchor)
               = ToCanvasExact(transform, anchor)]_vars

\* zoomed in to the maximum about a point off the origin: the pan moved
C38_Witness ==
  /\ result = Outcome("zoomAt", "none")
  /\ transform.zoom = MAX_ZOOM
  /\ transform.pan # Fraction(0, 1)
  /\ ToCanvasExact(transform, 1) = ToCanvasExact(DefaultTransform, 1)

====
